---------------------------- MODULE Spec2Model ----------------------------
(***************************************************************************)
(* A model of the generic vector library (packages vector2, vector3 and    *)
(* vector4): the scalar kinds and their arithmetic, the vector operations, *)
(* and the JSON encoding, as a state machine whose actions are the calls   *)
(* a client can make.                                                      *)
(*                                                                         *)
(* Scalars.  A component of an integer kind is the integer itself, kept in *)
(* two's complement at the kind's width.  A float64 is kept as a count of  *)
(* units of 2^-FracBits; it is representable when its magnitude has at     *)
(* most MantBits significant bits, and every float operation rounds its    *)
(* exact result to the nearest representable value, ties to even, as       *)
(* IEEE-754 does.  +Inf, -Inf and NaN are the three codes beyond the       *)
(* finite range.                                                           *)
(*                                                                         *)
(* TLC's integers have 32 bits, so the 64-bit integer kind and the 53-bit  *)
(* mantissa of float64 are kept at reduced widths WideBits and MantBits,   *)
(* with the order of the real widths: 8 <= MantBits < WideBits - 1, so     *)
(* every int8 is exact as a float64 and the largest int64 values are not.  *)
(***************************************************************************)
EXTENDS Integers, Sequences, FiniteSets, TLC

VARIABLES pkg, kind, a, b, arg, op, res, err

vars == <<pkg, kind, a, b, arg, op, res, err>>

---------------------------------------------------------------------------
(* The widths of the number formats.                                       *)

\* int8: 8 bits.
Int8Bits == 8

\* int64 (and int on a 64-bit build), at a reduced width.
WideBits == 11

\* Significant bits of a float64 (53 in binary64), at a reduced width.
MantBits == 8

\* Fraction bits of the float64 grid: the smallest positive float64 is
\* 2^-FracBits (2^-1074 in binary64).
FracBits == 14

\* Finite float64 magnitudes are below 2^TopBits (2^1024 in binary64).
TopBits == 12

Q == 2^FracBits

\* The largest finite float64, in units.
FMax == (2^MantBits - 1) * 2^(TopBits + FracBits - MantBits)

PInf == 2^(TopBits + FracBits)
NInf == 0 - PInf
NaN == PInf + 1

IsNaN(x) == x = NaN
IsInf(x) == x = PInf \/ x = NInf
IsFinite(x) == ~IsNaN(x) /\ ~IsInf(x)

Abs(n) == IF n < 0 THEN 0 - n ELSE n
Sgn(n) == IF n < 0 THEN 0 - 1 ELSE IF n > 0 THEN 1 ELSE 0

RECURSIVE BitLen(_)
BitLen(n) == IF n = 0 THEN 0 ELSE 1 + BitLen(n \div 2)

\* n = OddPart(n) * 2^TrailZeros(n), for n > 0
RECURSIVE TrailZeros(_)
TrailZeros(n) == IF n % 2 = 1 THEN 0 ELSE 1 + TrailZeros(n \div 2)

OddPart(n) == n \div 2^TrailZeros(n)

\* The float64 nearest to (m + s) * 2^e units, m >= 0, where s is 0 or,
\* with sticky, some amount strictly between 0 and 1: round to nearest,
\* ties to even, overflow to +Inf.
RoundE(m, e, sticky) ==
    LET len == BitLen(m) + e
        k   == IF len > MantBits THEN len - MantBits ELSE 0
        s   == k - e
    IN  IF m = 0 THEN 0
        ELSE IF len > TopBits + FracBits THEN PInf
        ELSE IF s <= 0 THEN m * 2^e
        ELSE IF s > BitLen(m) + 1 THEN 0
        ELSE LET q    == m \div 2^s
                 r    == m % 2^s
                 half == 2^(s - 1)
                 up   == r > half \/ (r = half /\ (sticky \/ q % 2 = 1))
                 n    == (IF up THEN q + 1 ELSE q) * 2^k
             IN  IF n > FMax THEN PInf ELSE n

\* sign * RoundE(..), with the sign put back
Signed(sign, x) == IF sign < 0 THEN 0 - x ELSE x

FAdd(x, y) ==
    IF IsNaN(x) \/ IsNaN(y) THEN NaN
    ELSE IF IsInf(x) THEN (IF IsInf(y) /\ y # x THEN NaN ELSE x)
    ELSE IF IsInf(y) THEN y
    ELSE Signed(Sgn(x + y), RoundE(Abs(x + y), 0, FALSE))

FNeg(x) == IF IsNaN(x) THEN NaN ELSE 0 - x

FSub(x, y) == FAdd(x, FNeg(y))

FMul(x, y) ==
    IF IsNaN(x) \/ IsNaN(y) THEN NaN
    ELSE IF IsInf(x) \/ IsInf(y)
         THEN (IF x = 0 \/ y = 0 THEN NaN
               ELSE Signed(Sgn(x) * Sgn(y), PInf))
    ELSE IF x = 0 \/ y = 0 THEN 0
    ELSE Signed(Sgn(x) * Sgn(y),
                RoundE(OddPart(Abs(x)) * OddPart(Abs(y)),
                       TrailZeros(Abs(x)) + TrailZeros(Abs(y)) - FracBits,
                       FALSE))

FDiv(x, y) ==
    IF IsNaN(x) \/ IsNaN(y) THEN NaN
    ELSE IF IsInf(x)
         THEN (IF IsInf(y) THEN NaN
               ELSE Signed(Sgn(x) * (IF y < 0 THEN 0 - 1 ELSE 1), PInf))
    ELSE IF IsInf(y) THEN 0
    ELSE IF y = 0 THEN (IF x = 0 THEN NaN ELSE Signed(Sgn(x), PInf))
    ELSE IF x = 0 THEN 0
    ELSE LET mx   == OddPart(Abs(x))
             my   == OddPart(Abs(y))
             pad  == MantBits - BitLen(mx)
             num  == mx * 2^(pad + MantBits + 2)
             e    == TrailZeros(Abs(x)) - TrailZeros(Abs(y)) + FracBits
                        - (pad + MantBits + 2)
         IN  Signed(Sgn(x) * Sgn(y),
                    RoundE(num \div my, e, num % my # 0))

\* sign * (m * 2^e + d) units rounded, for a d of the sign of `toward`
\* and of magnitude below 2^e, m having at least MantBits + 2 bits
Nudged(sign, m, e, toward) ==
    IF toward = sign THEN Signed(sign, RoundE(m, e, TRUE))
    ELSE Signed(sign, RoundE(4 * m - 1, e - 2, TRUE))

\* zero bits to append to m to give it at least MantBits + 2 bits
Pad(m) == IF BitLen(m) < MantBits + 2 THEN MantBits + 2 - BitLen(m) ELSE 0

\* x * y + z rounded once (a fused multiply-add)
FMA(x, y, z) ==
    IF IsNaN(x) \/ IsNaN(y) \/ IsNaN(z) THEN NaN
    ELSE IF IsInf(x) \/ IsInf(y) THEN FAdd(FMul(x, y), z)
    ELSE IF IsInf(z) THEN z
    ELSE IF x = 0 \/ y = 0 THEN z
    ELSE IF z = 0 THEN FMul(x, y)
    ELSE LET sp == Sgn(x) * Sgn(y)
             mp == OddPart(Abs(x)) * OddPart(Abs(y))
             ep == TrailZeros(Abs(x)) + TrailZeros(Abs(y)) - FracBits
             sz == Sgn(z)
             mz == OddPart(Abs(z))
             ez == TrailZeros(Abs(z))
             lo == IF ep < ez THEN ep ELSE ez
             t  == sp * mp * 2^(ep - lo) + sz * mz * 2^(ez - lo)
         IN  IF BitLen(mz) + ez <= ep - Pad(mp)
             THEN Nudged(sp, mp * 2^Pad(mp), ep - Pad(mp), sz)
             ELSE IF BitLen(mp) + ep <= ez - Pad(mz)
             THEN Nudged(sz, mz * 2^Pad(mz), ez - Pad(mz), sp)
             ELSE Signed(Sgn(t), RoundE(Abs(t), lo, FALSE))

\* x * y + z as the compiler may evaluate it: each operation rounded, or
\* the two fused into one (the language allows both; arm64 fuses)
MulAdd(x, y, z) == {FAdd(FMul(x, y), z), FMA(x, y, z)}

\* math.Min and math.Max: NaN if either operand is
MathMin(x, y) == IF IsNaN(x) \/ IsNaN(y) THEN NaN ELSE IF x < y THEN x ELSE y
MathMax(x, y) == IF IsNaN(x) \/ IsNaN(y) THEN NaN ELSE IF x > y THEN x ELSE y

\* math.Abs
MathAbs(f) == IF IsNaN(f) THEN NaN ELSE Abs(f)

\* the largest r in lo..hi-1 with r * r <= n, given lo * lo <= n < hi * hi
RECURSIVE ISqrtIn(_, _, _)
ISqrtIn(n, lo, hi) ==
    IF hi - lo <= 1 THEN lo
    ELSE LET mid == (lo + hi) \div 2
         IN  IF mid * mid <= n THEN ISqrtIn(n, mid, hi)
                               ELSE ISqrtIn(n, lo, mid)

ISqrt(n) == ISqrtIn(n, 0, 46340)

\* the least j >= 0 with n * 4^j >= 2^(2 * MantBits + 2)
RECURSIVE SqrtPad(_)
SqrtPad(n) == IF n >= 2^(2 * MantBits + 2) THEN 0 ELSE 1 + SqrtPad(4 * n)

\* x = m * 2^k units is the value m * 2^(k - FracBits); with k - FracBits
\* made even, its root is sqrt(m) * 2^((k - FracBits) / 2)
FSqrt(x) ==
    IF IsNaN(x) \/ x < 0 THEN NaN
    ELSE IF x = PInf THEN PInf
    ELSE IF x = 0 THEN 0
    ELSE LET odd == (TrailZeros(x) + FracBits) % 2 = 1
             m   == IF odd THEN 2 * OddPart(x) ELSE OddPart(x)
             k   == IF odd THEN TrailZeros(x) - 1 ELSE TrailZeros(x)
             j   == SqrtPad(m)
             n   == m * 4^j
             r   == ISqrt(n)
         IN  RoundE(r, (k - FracBits) \div 2 + FracBits - j, r * r # n)

\* Go's ==, < and <= on float64: false as soon as one side is NaN
FEq(x, y) == ~IsNaN(x) /\ ~IsNaN(y) /\ x = y
FLt(x, y) == ~IsNaN(x) /\ ~IsNaN(y) /\ x < y
---------------------------------------------------------------------------
(* The scalar kinds T of Vector[T], and Go's arithmetic and conversions    *)
(* on them.  int16 and int32 behave as int8 at another width, int as       *)
(* int64, float32 as float64 with a shorter mantissa.                      *)

Kinds == {"int8", "int64", "float64"}

IsInt(k) == k # "float64"

IntBits(k) == IF k = "int8" THEN Int8Bits ELSE WideBits

MinInt(k) == 0 - 2^(IntBits(k) - 1)
MaxInt(k) == 2^(IntBits(k) - 1) - 1

\* two's complement wrap-around of an integer result at the kind's width
Wrap(k, n) == ((n - MinInt(k)) % 2^IntBits(k)) + MinInt(k)

\* the zero value of T
ZeroT == 0

\* T(1), the constant 1 converted to T
OneT(k) == IF IsInt(k) THEN 1 ELSE Q

\* x + y, x - y, x * y and -x on operands of kind T
TAdd(k, x, y) == IF IsInt(k) THEN Wrap(k, x + y) ELSE FAdd(x, y)
TSub(k, x, y) == IF IsInt(k) THEN Wrap(k, x - y) ELSE FSub(x, y)
TMul(k, x, y) == IF IsInt(k) THEN Wrap(k, x * y) ELSE FMul(x, y)
TNeg(k, x) == IF IsInt(k) THEN Wrap(k, 0 - x) ELSE FNeg(x)
\* x == y on operands of kind T
TEq(k, x, y) == IF IsInt(k) THEN x = y ELSE FEq(x, y)

\* x < y and x <= y on operands of kind T
Lt(k, x, y) == IF IsInt(k) THEN x < y ELSE FLt(x, y)

Le(k, x, y) == IF IsInt(k) THEN x <= y ELSE FEq(x, y) \/ FLt(x, y)

\* float64(x) for x of kind T: the nearest float64
ToF(k, x) ==
    IF IsInt(k) THEN Signed(Sgn(x), RoundE(Abs(x) * Q, 0, FALSE)) ELSE x

\* a conversion that takes the integer below
Trunc_Floor(f) == IF f >= 0 THEN f \div Q ELSE 0 - ((0 - f + Q - 1) \div Q)

\* the integer part of a finite float64, toward zero
Trunc(f) == Sgn(f) * (Abs(f) \div Q)

\* math.Round: the nearest integer, halves away from zero; NaN and the
\* infinities are returned as they are
MathRound(f) ==
    IF ~IsFinite(f) THEN f ELSE Sgn(f) * ((Abs(f) + Q \div 2) \div Q) * Q

\* a floor that drops the fraction
MathFloor_TowardZero(f) == IF ~IsFinite(f) THEN f ELSE Trunc(f) * Q

\* math.Floor: the greatest integer at most f; NaN and the infinities are
\* returned as they are
MathFloor(f) ==
    IF ~IsFinite(f) THEN f
    ELSE IF f >= 0 THEN (f \div Q) * Q
    ELSE 0 - (((0 - f) + Q - 1) \div Q) * Q

\* math.Ceil(x) is -math.Floor(-x)
MathCeil(f) == FNeg(MathFloor(FNeg(f)))

\* T(f) for a float64 f: the set of values the conversion can give.  To an
\* integer kind it truncates toward zero; when the truncated value does not
\* fit the kind the result is implementation-dependent: the narrow kinds go
\* through a 32-bit conversion and keep its low bits (the model's finite
\* floats all fit 32 bits), and where the hardware conversion itself is out
\* of range amd64 gives the minimum and arm64 saturates (NaN gives 0).
Cast(k, f) ==
    IF ~IsInt(k) THEN {f}
    ELSE IF k = "int8"
         THEN (IF IsFinite(f) THEN {Wrap(k, Trunc(f))}
               ELSE IF f = PInf THEN {0, 0 - 1} ELSE {0})
    ELSE IF IsNaN(f) THEN {MinInt(k), 0}
    ELSE IF f = PInf \/ (IsFinite(f) /\ Trunc(f) > MaxInt(k))
         THEN {MinInt(k), MaxInt(k)}
    ELSE IF f = NInf \/ Trunc(f) < MinInt(k) THEN {MinInt(k)}
    ELSE {Trunc(f)}

\* a float64 literal n/d, d a power of two
Fl(n, d) == (n * Q) \div d

\* x1 * y1 + x2 * y2 evaluated in T: wrapped for an integer kind; for
\* float64 each operation rounded, or one product fused into the sum
SumProd2(k, x1, y1, x2, y2) ==
    IF IsInt(k) THEN {Wrap(k, x1 * y1 + x2 * y2)}
    ELSE {FAdd(FMul(x1, y1), FMul(x2, y2)),
          FMA(x1, y1, FMul(x2, y2)),
          FMA(x2, y2, FMul(x1, y1))}

\* x1 * y1 + x2 * y2 evaluated in T on a build that fuses as f
SumProd2On(f, k, x1, y1, x2, y2) ==
    IF IsInt(k) THEN Wrap(k, x1 * y1 + x2 * y2)
    ELSE CASE f = "none" -> FAdd(FMul(x1, y1), FMul(x2, y2))
           [] f = "left" -> FMA(x1, y1, FMul(x2, y2))
           [] f = "right" -> FMA(x2, y2, FMul(x1, y1))

\* x1 * y1 + x2 * y2 + x3 * y3 evaluated in T, from the left
SumProd3(k, x1, y1, x2, y2, x3, y3) ==
    IF IsInt(k) THEN {Wrap(k, x1 * y1 + x2 * y2 + x3 * y3)}
    ELSE UNION {{FAdd(s, FMul(x3, y3)), FMA(x3, y3, s)} :
                   s \in SumProd2(k, x1, y1, x2, y2)}

\* x1 * y1 + x2 * y2 + x3 * y3 + x4 * y4 evaluated in T, from the left
SumProd4(k, x1, y1, x2, y2, x3, y3, x4, y4) ==
    IF IsInt(k) THEN {Wrap(k, x1 * y1 + x2 * y2 + x3 * y3 + x4 * y4)}
    ELSE UNION {{FAdd(s, FMul(x4, y4)), FMA(x4, y4, s)} :
                   s \in SumProd3(k, x1, y1, x2, y2, x3, y3)}

\* how a build evaluates x1 * y1 - x2 * y2 on floats: each operation
\* rounded, or the left or the right product fused into the subtraction
Fusions == {"none", "left", "right"}

\* x1 * y1 - x2 * y2 evaluated in T, on a build that fuses as f
DiffProd2(f, k, x1, y1, x2, y2) ==
    IF IsInt(k) THEN Wrap(k, x1 * y1 - x2 * y2)
    ELSE CASE f = "none" -> FSub(FMul(x1, y1), FMul(x2, y2))
           [] f = "left" -> FMA(x1, y1, FNeg(FMul(x2, y2)))
           [] f = "right" -> FMA(FNeg(x2), y2, FMul(x1, y1))

\* int(x), int64(x) (kind "int64") or int8(x) for x of kind k
Conv(k, to, x) == IF IsInt(k) THEN {Wrap(to, x)} ELSE Cast(to, x)

---------------------------------------------------------------------------
(* encoding/json, as far as the vectors use it: a document is malformed    *)
(* text, a literal, a number, an array, or an object; an object is a       *)
(* function from its keys to values.  A number token counts units of       *)
(* 2^-(FracBits + DecBits): decimal text is finer than the float64 grid.   *)

DecBits == 1

JLit(t) == [t |-> t, n |-> 0, f |-> <<>>]
JNumber(n) == [t |-> "number", n |-> n, f |-> <<>>]
JObject(f) == [t |-> "object", n |-> 0, f |-> f]

\* a formatter that prints a fixed number of digits
FormatFloat_Fixed(f) == IF IsFinite(f) THEN (f \div 4) * 4 * 2^DecBits ELSE f

\* strconv.FormatFloat(f, 'f' or 'e', -1, 64): the shortest text that
\* parses back to f, a text of f's own value
FormatFloat(f) == f * 2^DecBits

\* strconv.ParseFloat(text, 64): the nearest float64, +-Inf when the
\* number is out of range
ParseFloat(n) == Signed(Sgn(n), RoundE(Abs(n), 0 - DecBits, FALSE))

\* the encoder on a float64 field: NaN and the infinities are refused
EncodeOk(f) == IsFinite(f)

\* a decoder that takes null for a value of the wrong type
DecodeField_NullRefused(f, key, cur) ==
    IF key \notin DOMAIN f THEN [val |-> cur, bad |-> FALSE]
    ELSE IF f[key].t = "number" /\ IsFinite(ParseFloat(f[key].n))
         THEN [val |-> ParseFloat(f[key].n), bad |-> FALSE]
    ELSE [val |-> cur, bad |-> TRUE]

\* the decoder on one float64 field holding cur, for the member under key
\* (if any): a number is stored, null is skipped, any other value and a
\* number out of range are a type error and leave the field alone
DecodeField(f, key, cur) ==
    IF key \notin DOMAIN f THEN [val |-> cur, bad |-> FALSE]
    ELSE IF f[key].t = "null" THEN [val |-> cur, bad |-> FALSE]
    ELSE IF f[key].t = "number" /\ IsFinite(ParseFloat(f[key].n))
         THEN [val |-> ParseFloat(f[key].n), bad |-> FALSE]
    ELSE [val |-> cur, bad |-> TRUE]

\* json.Unmarshal(data, &aux), aux a pointer to a struct of float64
\* fields: "SyntaxError" for malformed text; the literal null sets the
\* pointer aux itself to nil; a value that is no object is a type error
DecodeTop(data) ==
    IF data.t = "invalid" THEN "SyntaxError"
    ELSE IF data.t = "null" THEN "nilaux"
    ELSE IF data.t = "object" THEN "object"
    ELSE "UnmarshalTypeError"

---------------------------------------------------------------------------
(* package vector2: Vector[T] is [X, Y]                                    *)

Vec2(SX, SY) == {[X |-> x, Y |-> y] : x \in SX, y \in SY}

V2_Zero == [X |-> 0, Y |-> 0]

V2_Eq(k, v, o) == TEq(k, v.X, o.X) /\ TEq(k, v.Y, o.Y)

V2_Lerp(k, va, vb, t) ==
    Vec2(UNION {Cast(k, f) : f \in MulAdd(ToF(k, TSub(k, vb.X, va.X)), t, ToF(k, va.X))},
         UNION {Cast(k, f) : f \in MulAdd(ToF(k, TSub(k, vb.Y, va.Y)), t, ToF(k, va.Y))})

V2_Midpoint(k, va, vb) ==
    Vec2(Cast(k, FMul(ToF(k, TAdd(k, va.X, vb.X)), Fl(1, 2))),
         Cast(k, FMul(ToF(k, TAdd(k, va.Y, vb.Y)), Fl(1, 2))))

V2_FromArray(data) ==
    [X |-> IF Len(data) > 0 THEN data[1] ELSE ZeroT,
     Y |-> IF Len(data) > 1 THEN data[2] ELSE ZeroT]

V2_MarshalJSON(k, v) ==
    IF EncodeOk(ToF(k, v.X)) /\ EncodeOk(ToF(k, v.Y))
    THEN [err |-> "nil",
          data |-> JObject([x |-> JNumber(FormatFloat(ToF(k, v.X))),
                            y |-> JNumber(FormatFloat(ToF(k, v.Y)))])]
    ELSE [err |-> "UnsupportedValueError", data |-> JLit("none")]

\* an UnmarshalJSON that stores what was decoded before it looks at the error
V2_UnmarshalJSON_StoresFirst(k, v, data) ==
    LET top == DecodeTop(data)
        x   == DecodeField(data.f, "x", 0)
        y   == DecodeField(data.f, "y", 0)
        w   == Vec2(Cast(k, x.val), Cast(k, y.val))
    IN  IF top = "nilaux" THEN {[err |-> "panic", v |-> v]}
        ELSE IF top # "object" THEN {[err |-> top, v |-> v]}
        ELSE {[err |-> IF x.bad \/ y.bad THEN "UnmarshalTypeError" ELSE "nil",
               v |-> u] : u \in w}

V2_UnmarshalJSON(k, v, data) ==
    LET top == DecodeTop(data)
        x   == DecodeField(data.f, "x", 0)
        y   == DecodeField(data.f, "y", 0)
    IN  IF top = "nilaux" THEN {[err |-> "panic", v |-> v]}
        ELSE IF top # "object" THEN {[err |-> top, v |-> v]}
        ELSE IF x.bad \/ y.bad THEN {[err |-> "UnmarshalTypeError", v |-> v]}
        ELSE {[err |-> "nil", v |-> w] : w \in Vec2(Cast(k, x.val), Cast(k, y.val))}

V2_ToInt(k, v) == Vec2(Conv(k, "int64", v.X), Conv(k, "int64", v.Y))

V2_ToInt64(k, v) == Vec2(Conv(k, "int64", v.X), Conv(k, "int64", v.Y))

V2_RoundToInt(k, v) ==
    Vec2(Cast("int64", MathRound(ToF(k, v.X))), Cast("int64", MathRound(ToF(k, v.Y))))

V2_CeilToInt(k, v) ==
    Vec2(Cast("int64", MathCeil(ToF(k, v.X))), Cast("int64", MathCeil(ToF(k, v.Y))))

V2_FloorToInt(k, v) ==
    Vec2(Cast("int64", MathFloor(ToF(k, v.X))), Cast("int64", MathFloor(ToF(k, v.Y))))

V2_Dx(k, v, dX) == [X |-> TAdd(k, v.X, dX), Y |-> v.Y]

\* a Dy that moves both axes
V2_Dy_Both(k, v, dY) == [X |-> TAdd(k, v.X, dY), Y |-> TAdd(k, v.Y, dY)]

V2_Dy(k, v, dY) == [X |-> v.X, Y |-> TAdd(k, v.Y, dY)]

V2_Less(k, a0, b0) == Lt(k, a0.X, b0.X) /\ Lt(k, a0.Y, b0.Y)

\* a LessEq that is content with one axis
V2_LessEq_AnyAxis(k, a0, b0) == Le(k, a0.X, b0.X) \/ Le(k, a0.Y, b0.Y)

V2_LessEq(k, a0, b0) == Le(k, a0.X, b0.X) /\ Le(k, a0.Y, b0.Y)

\* x > y is y < x, and x >= y is y <= x, NaN included
V2_Greater(k, a0, b0) == Lt(k, b0.X, a0.X) /\ Lt(k, b0.Y, a0.Y)

V2_GreaterEq(k, a0, b0) == Le(k, b0.X, a0.X) /\ Le(k, b0.Y, a0.Y)

V2_Min(k, va, vb) ==
    Vec2(Cast(k, MathMin(ToF(k, va.X), ToF(k, vb.X))),
         Cast(k, MathMin(ToF(k, va.Y), ToF(k, vb.Y))))

V2_Max(k, va, vb) ==
    Vec2(Cast(k, MathMax(ToF(k, va.X), ToF(k, vb.X))),
         Cast(k, MathMax(ToF(k, va.Y), ToF(k, vb.Y))))

V2_YX(v) == [X |-> v.Y, Y |-> v.X]

V2_Add(k, v, other) == [X |-> TAdd(k, v.X, other.X), Y |-> TAdd(k, v.Y, other.Y)]

V2_Sub(k, v, other) == [X |-> TSub(k, v.X, other.X), Y |-> TSub(k, v.Y, other.Y)]

V2_Flip(k, v) ==
    [X |-> TMul(k, v.X, 0 - OneT(k)), Y |-> TMul(k, v.Y, 0 - OneT(k))]

\* a Perpendicular that turns the other way
V2_Perpendicular_Left(k, v) == [X |-> TNeg(k, v.Y), Y |-> v.X]

V2_Perpendicular(k, v) == [X |-> v.Y, Y |-> TNeg(k, v.X)]

\* a Dot that leaves Y out
V2_Dot_XOnly(k, v, other) == SumProd2(k, v.X, other.X, ZeroT, ZeroT)

\* the result is of kind T
V2_Dot(k, v, other) == SumProd2(k, v.X, other.X, v.Y, other.Y)

V2_LengthSquared(k, v) == SumProd2(k, v.X, v.X, v.Y, v.Y)

V2_Length(k, v) == {FSqrt(ToF(k, l)) : l \in V2_LengthSquared(k, v)}

V2_Scale(k, v, t) ==
    Vec2(Cast(k, FMul(ToF(k, v.X), t)), Cast(k, FMul(ToF(k, v.Y), t)))

\* a DivByConstant that multiplies
V2_DivByConstant_Times(k, v, t) == V2_Scale(k, v, t)

V2_DivByConstant(k, v, t) == V2_Scale(k, v, FDiv(Fl(1, 1), t))

V2_Normalized(k, v) == UNION {V2_DivByConstant(k, v, l) : l \in V2_Length(k, v)}

\* a Clamp that applies the lower bound first
\* the result is of kind T
V2_DistanceSquared(k, v, other) ==
    LET xDist == TSub(k, other.X, v.X)
        yDist == TSub(k, other.Y, v.Y)
    IN  SumProd2(k, xDist, xDist, yDist, yDist)

\* a Distance without the root
V2_Distance_Squared(k, v, other) ==
    {ToF(k, d) : d \in V2_DistanceSquared(k, v, other)}

V2_Distance(k, v, other) ==
    {FSqrt(ToF(k, d)) : d \in V2_DistanceSquared(k, v, other)}

V2_Clamp_MaxThenMin(k, v, min, max) ==
    Vec2(Cast(k, MathMin(MathMax(ToF(k, v.X), ToF(k, min)), ToF(k, max))),
         Cast(k, MathMin(MathMax(ToF(k, v.Y), ToF(k, min)), ToF(k, max))))

V2_Clamp(k, v, min, max) ==
    Vec2(Cast(k, MathMax(MathMin(ToF(k, v.X), ToF(k, max)), ToF(k, min))),
         Cast(k, MathMax(MathMin(ToF(k, v.Y), ToF(k, max)), ToF(k, min))))

---------------------------------------------------------------------------
(* package vector3: Vector[T] is [X, Y, Z]                                 *)

Vec3(SX, SY, SZ) == {[X |-> x, Y |-> y, Z |-> z] : x \in SX, y \in SY, z \in SZ}

V3_Zero == [X |-> 0, Y |-> 0, Z |-> 0]

V3_Eq(k, v, o) == TEq(k, v.X, o.X) /\ TEq(k, v.Y, o.Y) /\ TEq(k, v.Z, o.Z)

V3_Lerp(k, va, vb, t) ==
    Vec3(UNION {Cast(k, f) : f \in MulAdd(ToF(k, TSub(k, vb.X, va.X)), t, ToF(k, va.X))},
         UNION {Cast(k, f) : f \in MulAdd(ToF(k, TSub(k, vb.Y, va.Y)), t, ToF(k, va.Y))},
         UNION {Cast(k, f) : f \in MulAdd(ToF(k, TSub(k, vb.Z, va.Z)), t, ToF(k, va.Z))})

\* a Midpoint that halves each vector before it adds them
HalfSum(k, x, y) ==
    {TAdd(k, hx, hy) : hx \in Cast(k, FMul(ToF(k, x), Fl(1, 2))),
                       hy \in Cast(k, FMul(ToF(k, y), Fl(1, 2)))}

V3_Midpoint_HalvesFirst(k, va, vb) ==
    Vec3(HalfSum(k, va.X, vb.X), HalfSum(k, va.Y, vb.Y), HalfSum(k, va.Z, vb.Z))

V3_Midpoint(k, va, vb) ==
    Vec3(Cast(k, FMul(ToF(k, TAdd(k, va.X, vb.X)), Fl(1, 2))),
         Cast(k, FMul(ToF(k, TAdd(k, va.Y, vb.Y)), Fl(1, 2))),
         Cast(k, FMul(ToF(k, TAdd(k, va.Z, vb.Z)), Fl(1, 2))))

\* a FromArray that reads Z from the index of Y
V3_FromArray_ReadsY(data) ==
    [X |-> IF Len(data) > 0 THEN data[1] ELSE ZeroT,
     Y |-> IF Len(data) > 1 THEN data[2] ELSE ZeroT,
     Z |-> IF Len(data) > 2 THEN data[2] ELSE ZeroT]

V3_FromArray(data) ==
    [X |-> IF Len(data) > 0 THEN data[1] ELSE ZeroT,
     Y |-> IF Len(data) > 1 THEN data[2] ELSE ZeroT,
     Z |-> IF Len(data) > 2 THEN data[3] ELSE ZeroT]

V3_MarshalJSON(k, v) ==
    IF EncodeOk(ToF(k, v.X)) /\ EncodeOk(ToF(k, v.Y)) /\ EncodeOk(ToF(k, v.Z))
    THEN [err |-> "nil",
          data |-> JObject([x |-> JNumber(FormatFloat(ToF(k, v.X))),
                            y |-> JNumber(FormatFloat(ToF(k, v.Y))),
                            z |-> JNumber(FormatFloat(ToF(k, v.Z)))])]
    ELSE [err |-> "UnsupportedValueError", data |-> JLit("none")]

V3_UnmarshalJSON(k, v, data) ==
    LET top == DecodeTop(data)
        x   == DecodeField(data.f, "x", 0)
        y   == DecodeField(data.f, "y", 0)
        z   == DecodeField(data.f, "z", 0)
    IN  IF top = "nilaux" THEN {[err |-> "panic", v |-> v]}
        ELSE IF top # "object" THEN {[err |-> top, v |-> v]}
        ELSE IF x.bad \/ y.bad \/ z.bad
             THEN {[err |-> "UnmarshalTypeError", v |-> v]}
        ELSE {[err |-> "nil", v |-> w] :
                 w \in Vec3(Cast(k, x.val), Cast(k, y.val), Cast(k, z.val))}

V3_ToInt(k, v) ==
    Vec3(Conv(k, "int64", v.X), Conv(k, "int64", v.Y), Conv(k, "int64", v.Z))

V3_ToInt64(k, v) ==
    Vec3(Conv(k, "int64", v.X), Conv(k, "int64", v.Y), Conv(k, "int64", v.Z))

V3_XZY(v) == [X |-> v.X, Y |-> v.Z, Z |-> v.Y]

V3_Add(k, v, other) ==
    [X |-> TAdd(k, v.X, other.X), Y |-> TAdd(k, v.Y, other.Y),
     Z |-> TAdd(k, v.Z, other.Z)]

V3_Sub(k, v, other) ==
    [X |-> TSub(k, v.X, other.X), Y |-> TSub(k, v.Y, other.Y),
     Z |-> TSub(k, v.Z, other.Z)]

\* a Scale that scales X into Y
V3_Scale_CopiesX(k, v, t) ==
    Vec3(Cast(k, FMul(ToF(k, v.X), t)), Cast(k, FMul(ToF(k, v.X), t)),
         Cast(k, FMul(ToF(k, v.Z), t)))

V3_Scale(k, v, t) ==
    Vec3(Cast(k, FMul(ToF(k, v.X), t)), Cast(k, FMul(ToF(k, v.Y), t)),
         Cast(k, FMul(ToF(k, v.Z), t)))

V3_DivByConstant(k, v, t) ==
    Vec3(Cast(k, FDiv(ToF(k, v.X), t)), Cast(k, FDiv(ToF(k, v.Y), t)),
         Cast(k, FDiv(ToF(k, v.Z), t)))

\* a LengthSquared of X and Y alone
V3_LengthSquared_Flat(k, v) == {ToF(k, l) : l \in SumProd2(k, v.X, v.X, v.Y, v.Y)}

\* float64 of x*x + y*y + z*z, the sum evaluated in T from the left
V3_LengthSquared(k, v) ==
    IF IsInt(k)
    THEN {ToF(k, Wrap(k, v.X * v.X + v.Y * v.Y + v.Z * v.Z))}
    ELSE UNION {{FAdd(s, FMul(v.Z, v.Z)), FMA(v.Z, v.Z, s)} :
                   s \in SumProd2(k, v.X, v.X, v.Y, v.Y)}

V3_Length(k, v) == {FSqrt(l) : l \in V3_LengthSquared(k, v)}

V3_Dot(k, v, other) ==
    {ToF(k, d) : d \in SumProd3(k, v.X, other.X, v.Y, other.Y, v.Z, other.Z)}

V3_DistanceSquared(k, v, other) ==
    LET xDist == TSub(k, other.X, v.X)
        yDist == TSub(k, other.Y, v.Y)
        zDist == TSub(k, other.Z, v.Z)
    IN  {ToF(k, d) : d \in SumProd3(k, xDist, xDist, yDist, yDist, zDist, zDist)}

V3_Distance(k, v, other) == {FSqrt(d) : d \in V3_DistanceSquared(k, v, other)}

V3_Flip(k, v) ==
    [X |-> TMul(k, v.X, 0 - OneT(k)), Y |-> TMul(k, v.Y, 0 - OneT(k)),
     Z |-> TMul(k, v.Z, 0 - OneT(k))]

\* a Cross whose X lacks its second product
V3_Cross_HalfX(f, k, v, other) ==
    [X |-> DiffProd2(f, k, v.Y, other.Z, ZeroT, ZeroT),
     Y |-> DiffProd2(f, k, v.Z, other.X, v.X, other.Z),
     Z |-> DiffProd2(f, k, v.X, other.Y, v.Y, other.X)]

\* v.Cross(other), on a build that fuses as f
V3_Cross(f, k, v, other) ==
    [X |-> DiffProd2(f, k, v.Y, other.Z, v.Z, other.Y),
     Y |-> DiffProd2(f, k, v.Z, other.X, v.X, other.Z),
     Z |-> DiffProd2(f, k, v.X, other.Y, v.Y, other.X)]

V3_Right(k) == [X |-> OneT(k), Y |-> ZeroT, Z |-> ZeroT]

\* an up axis that lies along X
V3_Up_AlongX(k) == [X |-> OneT(k), Y |-> ZeroT, Z |-> ZeroT]

V3_Up(k) == [X |-> ZeroT, Y |-> OneT(k), Z |-> ZeroT]

\* a Perpendicular that picks its helper the other way round
V3_Perpendicular_OtherHelper(f, k, v) ==
    LET c == IF ~TEq(k, v.Y, ZeroT) \/ ~TEq(k, v.Z, ZeroT) THEN V3_Up(k) ELSE V3_Right(k)
    IN  V3_Cross(f, k, v, c)

V3_Perpendicular(f, k, v) ==
    LET c == IF ~TEq(k, v.Y, ZeroT) \/ ~TEq(k, v.Z, ZeroT) THEN V3_Right(k) ELSE V3_Up(k)
    IN  V3_Cross(f, k, v, c)

\* a Refract that takes the root of the difference as it is
V3_Refract_Unguarded(k, v, normal, etaiOverEtat) ==
    LET cosThetas == {MathMin(d, Fl(1, 1)) :
                         d \in UNION {V3_Dot(k, n, normal) :
                                         n \in V3_Scale(k, v, Fl(0 - 1, 1))}}
        perpendiculars ==
            UNION {V3_Scale(k, V3_Add(k, v, s), etaiOverEtat) :
                      s \in UNION {V3_Scale(k, normal, c) : c \in cosThetas}}
    IN  UNION {UNION {{[under |-> FSub(Fl(1, 1), l),
                        out |-> V3_Add(k, p, parallel)] :
                          parallel \in V3_Scale(k, normal,
                                          FNeg(FSqrt(FSub(Fl(1, 1), l))))} :
                         l \in V3_LengthSquared(k, p)} :
                  p \in perpendiculars}

\* v.Refract(normal, etaiOverEtat): each value the call can return, with
\* the difference 1.0 - perpendicular.LengthSquared() it was computed from
V3_Refract(k, v, normal, etaiOverEtat) ==
    LET cosThetas == {MathMin(d, Fl(1, 1)) :
                         d \in UNION {V3_Dot(k, n, normal) :
                                         n \in V3_Scale(k, v, Fl(0 - 1, 1))}}
        perpendiculars ==
            UNION {V3_Scale(k, V3_Add(k, v, s), etaiOverEtat) :
                      s \in UNION {V3_Scale(k, normal, c) : c \in cosThetas}}
    IN  UNION {UNION {{[under |-> FSub(Fl(1, 1), l),
                        out |-> V3_Add(k, p, parallel)] :
                          parallel \in V3_Scale(k, normal,
                                          FNeg(FSqrt(MathAbs(FSub(Fl(1, 1), l)))))} :
                         l \in V3_LengthSquared(k, p)} :
                  p \in perpendiculars}

\* a RandRange that scales by max
V3_RandRange_ByMax(k, R, min, max) ==
    LET dist == ToF(k, max)
        C == {TAdd(k, c, min) : c \in UNION {Cast(k, FMul(f, dist)) : f \in R}}
    IN  Vec3(C, C, C)

\* RandRange(r, min, max): r is the set of the values r.Float64() can
\* return; the conversion T(...) rounds, so the product is never fused
V3_RandRange(k, R, min, max) ==
    LET dist == ToF(k, TSub(k, max, min))
        C == {TAdd(k, c, min) : c \in UNION {Cast(k, FMul(f, dist)) : f \in R}}
    IN  Vec3(C, C, C)

\* values of r.Float64(), all in [0, 1): the least, the greatest, and two
\* between
Draws == {0, Fl(1, 4), Fl(1, 2), Fl(2^MantBits - 1, 2^MantBits)}

\* random sources, each the set of the values it can return
Sources == SUBSET Draws \ {{}}

\* the candidates of RandInUnitSphere: RandRange(r, -1., 1.)
V3_Candidates(R) == V3_RandRange("float64", R, Fl(0 - 1, 1), Fl(1, 1))

\* a test that lets the points on the sphere pass
V3_InUnitSphere_OrOn(p) ==
    {FLt(l, Fl(1, 1)) \/ FEq(l, Fl(1, 1)) : l \in V3_LengthSquared("float64", p)}

\* p.LengthSquared() < 1: the outcomes of the test over the builds
V3_InUnitSphere(p) == {FLt(l, Fl(1, 1)) : l \in V3_LengthSquared("float64", p)}

V3_Min(k, va, vb) ==
    Vec3(Cast(k, MathMin(ToF(k, va.X), ToF(k, vb.X))),
         Cast(k, MathMin(ToF(k, va.Y), ToF(k, vb.Y))),
         Cast(k, MathMin(ToF(k, va.Z), ToF(k, vb.Z))))

V3_Max(k, va, vb) ==
    Vec3(Cast(k, MathMax(ToF(k, va.X), ToF(k, vb.X))),
         Cast(k, MathMax(ToF(k, va.Y), ToF(k, vb.Y))),
         Cast(k, MathMax(ToF(k, va.Z), ToF(k, vb.Z))))

V3_Normalized(k, v) == UNION {V3_DivByConstant(k, v, l) : l \in V3_Length(k, v)}

---------------------------------------------------------------------------
(* package vector4: Vector[T] is [x, y, z, w]                              *)

Vec4(SX, SY, SZ, SW) ==
    {[x |-> cx, y |-> cy, z |-> cz, w |-> cw] :
        cx \in SX, cy \in SY, cz \in SZ, cw \in SW}

V4_Zero == [x |-> 0, y |-> 0, z |-> 0, w |-> 0]

V4_Eq(k, v, o) ==
    TEq(k, v.x, o.x) /\ TEq(k, v.y, o.y) /\ TEq(k, v.z, o.z) /\ TEq(k, v.w, o.w)

V4_Add(k, v, other) ==
    [x |-> TAdd(k, v.x, other.x), y |-> TAdd(k, v.y, other.y),
     z |-> TAdd(k, v.z, other.z), w |-> TAdd(k, v.w, other.w)]

V4_Sub(k, v, other) ==
    [x |-> TSub(k, v.x, other.x), y |-> TSub(k, v.y, other.y),
     z |-> TSub(k, v.z, other.z), w |-> TSub(k, v.w, other.w)]

\* a Scale that rounds to the nearest integer where the cast truncates
V4_Scale_Nearest(k, v, t) ==
    IF IsInt(k)
    THEN Vec4(Cast(k, MathRound(FMul(ToF(k, v.x), t))),
              Cast(k, MathRound(FMul(ToF(k, v.y), t))),
              Cast(k, MathRound(FMul(ToF(k, v.z), t))),
              Cast(k, MathRound(FMul(ToF(k, v.w), t))))
    ELSE Vec4({FMul(v.x, t)}, {FMul(v.y, t)}, {FMul(v.z, t)}, {FMul(v.w, t)})

V4_Scale(k, v, t) ==
    Vec4(Cast(k, FMul(ToF(k, v.x), t)), Cast(k, FMul(ToF(k, v.y), t)),
         Cast(k, FMul(ToF(k, v.z), t)), Cast(k, FMul(ToF(k, v.w), t)))

\* a Lerp that steps from a by a - b
V4_Lerp_Backwards(k, va, vb, t) ==
    {V4_Add(k, s, va) : s \in V4_Scale(k, V4_Sub(k, va, vb), t)}

V4_Lerp(k, va, vb, t) == {V4_Add(k, s, va) : s \in V4_Scale(k, V4_Sub(k, vb, va), t)}

\* a Min that takes every component from its first operand
V4_Min_OfFirst(k, va, vb) ==
    Vec4(Cast(k, ToF(k, va.x)), Cast(k, ToF(k, va.y)),
         Cast(k, ToF(k, va.z)), Cast(k, ToF(k, va.w)))

V4_Min(k, va, vb) ==
    Vec4(Cast(k, MathMin(ToF(k, va.x), ToF(k, vb.x))),
         Cast(k, MathMin(ToF(k, va.y), ToF(k, vb.y))),
         Cast(k, MathMin(ToF(k, va.z), ToF(k, vb.z))),
         Cast(k, MathMin(ToF(k, va.w), ToF(k, vb.w))))

V4_Max(k, va, vb) ==
    Vec4(Cast(k, MathMax(ToF(k, va.x), ToF(k, vb.x))),
         Cast(k, MathMax(ToF(k, va.y), ToF(k, vb.y))),
         Cast(k, MathMax(ToF(k, va.z), ToF(k, vb.z))),
         Cast(k, MathMax(ToF(k, va.w), ToF(k, vb.w))))

V4_DivByConstant(k, v, t) ==
    Vec4(Cast(k, FDiv(ToF(k, v.x), t)), Cast(k, FDiv(ToF(k, v.y), t)),
         Cast(k, FDiv(ToF(k, v.z), t)), Cast(k, FDiv(ToF(k, v.w), t)))

V4_Midpoint(k, va, vb) == V4_Scale(k, V4_Add(k, vb, va), Fl(1, 2))

V4_FromArray(data) ==
    [x |-> IF Len(data) > 0 THEN data[1] ELSE ZeroT,
     y |-> IF Len(data) > 1 THEN data[2] ELSE ZeroT,
     z |-> IF Len(data) > 2 THEN data[3] ELSE ZeroT,
     w |-> IF Len(data) > 3 THEN data[4] ELSE ZeroT]

V4_MarshalJSON(k, v) ==
    IF /\ EncodeOk(ToF(k, v.x)) /\ EncodeOk(ToF(k, v.y))
       /\ EncodeOk(ToF(k, v.z)) /\ EncodeOk(ToF(k, v.w))
    THEN [err |-> "nil",
          data |-> JObject([x |-> JNumber(FormatFloat(ToF(k, v.x))),
                            y |-> JNumber(FormatFloat(ToF(k, v.y))),
                            z |-> JNumber(FormatFloat(ToF(k, v.z))),
                            w |-> JNumber(FormatFloat(ToF(k, v.w)))])]
    ELSE [err |-> "UnsupportedValueError", data |-> JLit("none")]

\* an UnmarshalJSON whose aux starts from the receiver's components
V4_UnmarshalJSON_FromReceiver(k, v, data) ==
    LET top == DecodeTop(data)
        x   == DecodeField(data.f, "x", ToF(k, v.x))
        y   == DecodeField(data.f, "y", ToF(k, v.y))
        z   == DecodeField(data.f, "z", ToF(k, v.z))
        w   == DecodeField(data.f, "w", ToF(k, v.w))
    IN  IF top = "nilaux" THEN {[err |-> "panic", v |-> v]}
        ELSE IF top # "object" THEN {[err |-> top, v |-> v]}
        ELSE IF x.bad \/ y.bad \/ z.bad \/ w.bad
             THEN {[err |-> "UnmarshalTypeError", v |-> v]}
        ELSE {[err |-> "nil", v |-> r] :
                 r \in Vec4(Cast(k, x.val), Cast(k, y.val),
                            Cast(k, z.val), Cast(k, w.val))}

V4_UnmarshalJSON(k, v, data) ==
    LET top == DecodeTop(data)
        x   == DecodeField(data.f, "x", 0)
        y   == DecodeField(data.f, "y", 0)
        z   == DecodeField(data.f, "z", 0)
        w   == DecodeField(data.f, "w", 0)
    IN  IF top = "nilaux" THEN {[err |-> "panic", v |-> v]}
        ELSE IF top # "object" THEN {[err |-> top, v |-> v]}
        ELSE IF x.bad \/ y.bad \/ z.bad \/ w.bad
             THEN {[err |-> "UnmarshalTypeError", v |-> v]}
        ELSE {[err |-> "nil", v |-> r] :
                 r \in Vec4(Cast(k, x.val), Cast(k, y.val),
                            Cast(k, z.val), Cast(k, w.val))}

V4_ToInt(k, v) ==
    Vec4(Conv(k, "int64", v.x), Conv(k, "int64", v.y),
         Conv(k, "int64", v.z), Conv(k, "int64", v.w))

V4_ToInt64(k, v) ==
    Vec4(Conv(k, "int64", v.x), Conv(k, "int64", v.y),
         Conv(k, "int64", v.z), Conv(k, "int64", v.w))

V4_RoundToInt(k, v) ==
    Vec4(Cast("int64", MathRound(ToF(k, v.x))), Cast("int64", MathRound(ToF(k, v.y))),
         Cast("int64", MathRound(ToF(k, v.z))), Cast("int64", MathRound(ToF(k, v.w))))

V4_FloorToInt(k, v) ==
    Vec4(Cast("int64", MathFloor(ToF(k, v.x))), Cast("int64", MathFloor(ToF(k, v.y))),
         Cast("int64", MathFloor(ToF(k, v.z))), Cast("int64", MathFloor(ToF(k, v.w))))

V4_CeilToInt(k, v) ==
    Vec4(Cast("int64", MathCeil(ToF(k, v.x))), Cast("int64", MathCeil(ToF(k, v.y))),
         Cast("int64", MathCeil(ToF(k, v.z))), Cast("int64", MathCeil(ToF(k, v.w))))

V4_Dot(k, v, other) ==
    {ToF(k, d) : d \in SumProd4(k, v.x, other.x, v.y, other.y,
                                 v.z, other.z, v.w, other.w)}

V4_SetX(v, newX) == [x |-> newX, y |-> v.y, z |-> v.z, w |-> v.w]
V4_SetY(v, newY) == [x |-> v.x, y |-> newY, z |-> v.z, w |-> v.w]
V4_SetZ(v, newZ) == [x |-> v.x, y |-> v.y, z |-> newZ, w |-> v.w]
V4_SetW(v, newW) == [x |-> v.x, y |-> v.y, z |-> v.z, w |-> newW]

\* a Clamp without the lower bound
V4_Clamp_UpperOnly(k, v, min, max) ==
    Vec4(Cast(k, MathMin(ToF(k, v.x), ToF(k, max))),
         Cast(k, MathMin(ToF(k, v.y), ToF(k, max))),
         Cast(k, MathMin(ToF(k, v.z), ToF(k, max))),
         Cast(k, MathMin(ToF(k, v.w), ToF(k, max))))

V4_Clamp(k, v, min, max) ==
    Vec4(Cast(k, MathMax(MathMin(ToF(k, v.x), ToF(k, max)), ToF(k, min))),
         Cast(k, MathMax(MathMin(ToF(k, v.y), ToF(k, max)), ToF(k, min))),
         Cast(k, MathMax(MathMin(ToF(k, v.z), ToF(k, max)), ToF(k, min))),
         Cast(k, MathMax(MathMin(ToF(k, v.w), ToF(k, max)), ToF(k, min))))

---------------------------------------------------------------------------
(* The client: two vectors a and b of one package and one kind, and the    *)
(* calls it makes.  A method is called on a, with b as the other vector;   *)
(* UnmarshalJSON is called on b, the vector decoded into.  op, arg and     *)
(* res record the last call, its other input, and what it returned.        *)

Pkgs == {2, 3, 4}

\* component values the client draws from, per kind
Tiny(k) ==
    IF k = "int8" THEN {0 - 100, 3}
    ELSE IF k = "int64" THEN {0 - 1, 2^MantBits + 1}
    ELSE {Fl(5, 4), Fl(0 - 5, 2)}

\* more of them: the extremes of the kind, the integers next to the last
\* one float64 holds exactly, fractions, the smallest and largest floats,
\* the infinities and NaN
Rich(k) ==
    IF k = "int8" THEN {MinInt(k), 0 - 100, 0 - 1, 0, 1, 3, 100, MaxInt(k)}
    ELSE IF k = "int64"
         THEN {MinInt(k), 0 - (2^MantBits + 1), 0 - 2^MantBits, 0 - 1, 0, 1,
               2^(MantBits - 1), 2^MantBits, 2^MantBits + 1, MaxInt(k)}
    ELSE {0, 1, Fl(1, 2), Fl(1, 1), Fl(0 - 1, 1), Fl(5, 4), Fl(0 - 5, 2),
          Fl(3, 1), Fl(200, 1), FMax, 0 - FMax, PInf, NInf, NaN}

\* the ends of an interpolation
Ends(k) ==
    IF k = "int8" THEN {MinInt(k), 0 - 100, 0, 3, 100, MaxInt(k)}
    ELSE IF k = "int64"
         THEN {MinInt(k), 0 - (2^MantBits + 1), 0, 1, 2^(MantBits - 1),
               2^MantBits, MaxInt(k)}
    ELSE {0, 1, Fl(1, 2), Fl(1, 1), Fl(0 - 5, 2), Fl(3, 1), Fl(200, 1),
          FMax, PInf, NaN}

\* the components of the vectors to normalise
Sides(k) ==
    IF IsInt(k) THEN {0 - 1, 0, 3, 4, 5}
    ELSE {0, 1, Fl(1, 32), Fl(1, 2), Fl(1, 1), Fl(0 - 5, 2), Fl(3, 1),
          Fl(4, 1), Fl(30, 1), Fl(200, 1), PInf, NaN}

\* the components of the vectors to convert: fractions on both sides of a
\* half, the ends of the wide integer kind, and floats beyond it
Fractions(k) ==
    IF IsInt(k) THEN Tiny(k) \cup {MinInt(k), MaxInt(k)}
    ELSE {0, 1, 0 - 1, Fl(1, 2), Fl(0 - 1, 2), Fl(5, 4), Fl(7, 4), Fl(0 - 5, 2),
          Fl(11, 2), Fl(0 - 9, 4), Fl(1000, 1), Fl(MinInt("int64"), 1),
          Fl(MaxInt("int64") + 1, 1), FMax, PInf, NInf, NaN}

\* the bounds to clamp between: in order and crossed, a wide integer
\* float64 does not hold, the largest integer, and NaN
Limits(k) ==
    IF k = "int8" THEN {0 - 100, 0, 3}
    ELSE IF k = "int64" THEN {0, 3, 2^MantBits + 1, MaxInt(k)}
    ELSE {Fl(0 - 5, 2), Fl(1, 1), Fl(3, 1), NaN}

\* the components of the vectors to cross: zero for the vectors along an
\* axis, the least integer, a float whose square needs rounding, +Inf and NaN
Axes(k) ==
    IF k = "int8" THEN {0, 3, 0 - 100, MinInt(k)}
    ELSE IF k = "int64" THEN {0, 3, 2^MantBits + 1, MinInt(k)}
    ELSE {0, Fl(1, 1), Fl(129, 128), Fl(0 - 5, 2), PInf, NaN}

\* the components of the rays and normals to refract: along an axis, of
\* unit length and longer, +Inf and NaN
Rays(k) ==
    IF IsInt(k) THEN {0, 1, 0 - 1, 3}
    ELSE {0, Fl(1, 1), Fl(0 - 1, 1), Fl(3, 4), PInf, NaN}

\* the ratios of the refractive indices
Ratios == {Fl(1, 2), Fl(1, 1), Fl(3, 2)}

\* the sources that return one value, and the one that returns the least
\* or the greatest
FewSources == {{f} : f \in Draws} \cup {{0, Fl(2^MantBits - 1, 2^MantBits)}}

\* the bounds of RandRange: apart by less and by more than the kind holds
Ranges(k) ==
    IF k = "int8" THEN {0 - 100, 0 - 1, 3, 100}
    ELSE IF k = "int64" THEN {MinInt(k), 0, 3, 2^MantBits + 3, MaxInt(k)}
    ELSE {Fl(0 - 1, 1), 0, Fl(1, 1), Fl(200, 1), Fl(203, 1), PInf, NaN}

\* the components to take the smaller and the larger of: the extremes of
\* the kind, wide integers float64 does not hold, the infinities and NaN
Peaks(k) ==
    IF k = "int8" THEN {MinInt(k), 0 - 1, 3, MaxInt(k)}
    ELSE IF k = "int64"
         THEN {MinInt(k), 3, 2^MantBits + 1, 2^MantBits + 3, MaxInt(k)}
    ELSE {0, Fl(1, 1), Fl(0 - 5, 2), PInf, NInf, NaN}

\* the vector (1, 2, ...) and the same backwards
Counted(p, k) ==
    IF p = 2 THEN [X |-> OneT(k), Y |-> 2 * OneT(k)]
    ELSE IF p = 3 THEN [X |-> OneT(k), Y |-> 2 * OneT(k), Z |-> 3 * OneT(k)]
    ELSE [x |-> OneT(k), y |-> 2 * OneT(k), z |-> 3 * OneT(k), w |-> 4 * OneT(k)]

Reversed(p, k) ==
    IF p = 2 THEN [X |-> 2 * OneT(k), Y |-> OneT(k)]
    ELSE IF p = 3 THEN [X |-> 3 * OneT(k), Y |-> 2 * OneT(k), Z |-> OneT(k)]
    ELSE [x |-> 4 * OneT(k), y |-> 3 * OneT(k), z |-> 2 * OneT(k), w |-> OneT(k)]

Vecs(p, S) ==
    IF p = 2 THEN Vec2(S, S)
    ELSE IF p = 3 THEN Vec3(S, S, S)
    ELSE Vec4(S, S, S, S)

\* the vector with first component c and every other component d
Mixed(p, c, d) ==
    IF p = 2 THEN [X |-> c, Y |-> d]
    ELSE IF p = 3 THEN [X |-> c, Y |-> d, Z |-> d]
    ELSE [x |-> c, y |-> d, z |-> d, w |-> d]

Few(p, S) == {Mixed(p, t[1], t[2]) : t \in {u \in S \X S : u[1] # u[2]}}

\* the components of the vectors to average: sums that wrap around, wide
\* integers float64 does not hold, sums that round or overflow, +Inf, NaN
Loads(k) ==
    IF k = "int8" THEN {3, 100, 0 - 100}
    ELSE IF k = "int64" THEN {3, 2^MantBits + 1, MaxInt(k)}
    ELSE {Fl(1, 1), Fl(5, 4), Fl(129, 128), FMax, PInf, NaN}

\* the greatest number of copies of one vector in a list
MaxCopies == 13

\* the vectors to average: one of the components and threes
Laden(p, k) == {Mixed(p, c, 3 * OneT(k)) : c \in Loads(k)}

\* the lists to average: none, up to MaxCopies copies of one vector, and
\* pairs of two
Lists(p, k) ==
    {<<>>}
    \cup {[i \in 1..n |-> v] : n \in 1..MaxCopies, v \in Laden(p, k)}
    \cup {<<v, o>> : v \in Laden(p, k), o \in Laden(p, k)}

Zero(p) == IF p = 2 THEN V2_Zero ELSE IF p = 3 THEN V3_Zero ELSE V4_Zero

\* the components of a vector in order
Comps(p, v) ==
    IF p = 2 THEN <<v.X, v.Y>>
    ELSE IF p = 3 THEN <<v.X, v.Y, v.Z>>
    ELSE <<v.x, v.y, v.z, v.w>>

\* Go's == on two vectors of kind k
VecEq(p, k, v, o) ==
    IF p = 2 THEN V2_Eq(k, v, o)
    ELSE IF p = 3 THEN V3_Eq(k, v, o)
    ELSE V4_Eq(k, v, o)

\* the scalars t of Scale and Lerp
Scalars == {0, Fl(1, 2), Fl(1, 1)}

\* the documents handed to UnmarshalJSON
Keys(p) == IF p = 2 THEN {"x", "y"}
           ELSE IF p = 3 THEN {"x", "y", "z"}
           ELSE {"x", "y", "z", "w"}

\* the texts that are no object: malformed text, and the well-formed
\* null, array, string and number
Literals ==
    {JLit("invalid"), JLit("null"), JLit("array"), JLit("string"),
     JNumber(FormatFloat(Fl(1, 1)))}

\* the values an object's member can hold: null, a string, 1.5, 300, and a
\* number beyond the range of float64
Members ==
    {JLit("null"), JLit("string"), JNumber(FormatFloat(Fl(3, 2))),
     JNumber(FormatFloat(Fl(300, 1))), JNumber(FormatFloat(PInf))}

\* the object with member mx under "x" and mo under every other component
\* key, a member "absent" being left out, and with a key "q" that names no
\* component when extra
Object(p, mx, mo, extra) ==
    JObject([key \in (IF mx.t = "absent" THEN {} ELSE {"x"})
                       \cup (IF mo.t = "absent" THEN {} ELSE Keys(p) \ {"x"})
                       \cup (IF extra THEN {"q"} ELSE {})
               |-> IF key = "x" THEN mx ELSE IF key = "q" THEN JLit("string") ELSE mo])

Docs(p) ==
    Literals
      \cup {Object(p, mx, mo, FALSE) : mx \in Members \cup {JLit("absent")},
                                       mo \in Members \cup {JLit("absent")}}
      \cup {Object(p, mx, mx, TRUE) : mx \in Members}

FewDocs(p) ==
    Literals
      \cup {Object(p, mx, mx, FALSE) :
                mx \in {JLit("absent"), JLit("string"), JNumber(FormatFloat(Fl(3, 2)))}}

\* the arrays handed to FromArray
MaxArr == 5

Arrays(S) == UNION {[1..n -> S] : n \in 0..MaxArr}

\* Lerp(a, b, t) and Midpoint(a, b) of package p
Vector_Lerp(p, k, va, vb, t) ==
    CASE p = 2 -> V2_Lerp(k, va, vb, t)
      [] p = 3 -> V3_Lerp(k, va, vb, t)
      [] p = 4 -> V4_Lerp(k, va, vb, t)

Vector_Midpoint(p, k, va, vb) ==
    CASE p = 2 -> V2_Midpoint(k, va, vb)
      [] p = 3 -> V3_Midpoint(k, va, vb)
      [] p = 4 -> V4_Midpoint(k, va, vb)

\* Length(), ToInt(), ToInt64() and RoundToInt() of package p
Vector_Length(p, k, v) ==
    CASE p = 2 -> V2_Length(k, v)
      [] p = 3 -> V3_Length(k, v)

Vector_ToInt(p, k, v) ==
    CASE p = 2 -> V2_ToInt(k, v)
      [] p = 3 -> V3_ToInt(k, v)
      [] p = 4 -> V4_ToInt(k, v)

Vector_ToInt64(p, k, v) ==
    CASE p = 2 -> V2_ToInt64(k, v)
      [] p = 3 -> V3_ToInt64(k, v)
      [] p = 4 -> V4_ToInt64(k, v)

Vector_RoundToInt(p, k, v) ==
    CASE p = 2 -> V2_RoundToInt(k, v)
      [] p = 4 -> V4_RoundToInt(k, v)

\* FloorToInt() and CeilToInt() of package p
Vector_FloorToInt(p, k, v) ==
    CASE p = 2 -> V2_FloorToInt(k, v)
      [] p = 4 -> V4_FloorToInt(k, v)

Vector_CeilToInt(p, k, v) ==
    CASE p = 2 -> V2_CeilToInt(k, v)
      [] p = 4 -> V4_CeilToInt(k, v)

\* the scalars of S as results of kind t
Typed(t, S) == {[kind |-> t, val |-> x] : x \in S}

\* v.Dot(o) of package p, of kind T in vector2 and a float64 in the others
Vector_Dot(p, k, v, o) ==
    CASE p = 2 -> Typed(k, V2_Dot(k, v, o))
      [] p = 3 -> Typed("float64", V3_Dot(k, v, o))
      [] p = 4 -> Typed("float64", V4_Dot(k, v, o))

\* v.LengthSquared() and v.DistanceSquared(o) of package p, of kind T in
\* vector2 and a float64 in vector3
Vector_LengthSquared(p, k, v) ==
    CASE p = 2 -> Typed(k, V2_LengthSquared(k, v))
      [] p = 3 -> Typed("float64", V3_LengthSquared(k, v))

Vector_DistanceSquared(p, k, v, o) ==
    CASE p = 2 -> Typed(k, V2_DistanceSquared(k, v, o))
      [] p = 3 -> Typed("float64", V3_DistanceSquared(k, v, o))

\* v.Distance(o) of package p
Vector_Distance(p, k, v, o) ==
    CASE p = 2 -> V2_Distance(k, v, o)
      [] p = 3 -> V3_Distance(k, v, o)

\* v.Sub(o) of package p
Vector_Sub(p, k, v, o) ==
    CASE p = 2 -> V2_Sub(k, v, o)
      [] p = 3 -> V3_Sub(k, v, o)
      [] p = 4 -> V4_Sub(k, v, o)

Vector_Min(p, k, va, vb) ==
    CASE p = 2 -> V2_Min(k, va, vb)
      [] p = 3 -> V3_Min(k, va, vb)
      [] p = 4 -> V4_Min(k, va, vb)

Vector_Max(p, k, va, vb) ==
    CASE p = 2 -> V2_Max(k, va, vb)
      [] p = 3 -> V3_Max(k, va, vb)
      [] p = 4 -> V4_Max(k, va, vb)

\* center after the loop of Average: the vectors added in T from the left,
\* starting from the zero vector
RECURSIVE Center(_, _, _)
Center(p, k, vectors) ==
    IF vectors = <<>> THEN Zero(p)
    ELSE LET center == Center(p, k, SubSeq(vectors, 1, Len(vectors) - 1))
             v == vectors[Len(vectors)]
         IN  IF p = 3 THEN V3_Add(k, center, v) ELSE V4_Add(k, center, v)

\* an Average that divides by the number of vectors after the first
V4_Average_OneLess(k, vectors) ==
    V4_DivByConstant(k, Center(4, k, vectors), Fl(Len(vectors) - 1, 1))

V4_Average(k, vectors) ==
    V4_DivByConstant(k, Center(4, k, vectors), Fl(Len(vectors), 1))

V3_Average(k, vectors) ==
    V3_DivByConstant(k, Center(3, k, vectors), Fl(Len(vectors), 1))

\* Vector3, the float64 vector before the generic one: MultByConstant
\* multiplies each component, DivByConstant multiplies by 1.0 / t
Vector3_MultByConstant(v, t) ==
    [X |-> FMul(v.X, t), Y |-> FMul(v.Y, t), Z |-> FMul(v.Z, t)]

Vector3_DivByConstant(v, t) == Vector3_MultByConstant(v, FDiv(Fl(1, 1), t))

Vector3_Average(vectors) ==
    Vector3_DivByConstant(Center(3, "float64", vectors), Fl(Len(vectors), 1))

\* no call is in its loop: the client is free to make one
Idle == op \notin {"RandInUnitSphere.for", "RandInUnitSphere.return"}

\* a call that returns one of `results` and leaves both vectors alone
Returns(name, input, results) ==
    /\ Idle
    /\ op' = name
    /\ arg' = input
    /\ \E r \in results : res' = r
    /\ err' = "none"
    /\ UNCHANGED <<pkg, kind, a, b>>

Add ==
    Returns("Add", 0,
            {CASE pkg = 2 -> V2_Add(kind, a, b)
               [] pkg = 3 -> V3_Add(kind, a, b)
               [] pkg = 4 -> V4_Add(kind, a, b)})

Sub ==
    Returns("Sub", 0, {Vector_Sub(pkg, kind, a, b)})

Dot ==
    Returns("Dot", 0, Vector_Dot(pkg, kind, a, b))

LengthSquared ==
    /\ pkg \in {2, 3}
    /\ Returns("LengthSquared", 0, Vector_LengthSquared(pkg, kind, a))

DistanceSquared ==
    /\ pkg \in {2, 3}
    /\ Returns("DistanceSquared", 0, Vector_DistanceSquared(pkg, kind, a, b))

Distance ==
    /\ pkg \in {2, 3}
    /\ Returns("Distance", 0, Vector_Distance(pkg, kind, a, b))

Scale(T) ==
    \E t \in T :
        Returns("Scale", t,
                CASE pkg = 2 -> V2_Scale(kind, a, t)
                  [] pkg = 3 -> V3_Scale(kind, a, t)
                  [] pkg = 4 -> V4_Scale(kind, a, t))

Lerp(T) ==
    \E t \in T :
        Returns("Lerp", t, Vector_Lerp(pkg, kind, a, b, t))

Midpoint ==
    Returns("Midpoint", 0, Vector_Midpoint(pkg, kind, a, b))

FromArray(A) ==
    \E data \in A :
        Returns("FromArray", data,
                {CASE pkg = 2 -> V2_FromArray(data)
                   [] pkg = 3 -> V3_FromArray(data)
                   [] pkg = 4 -> V4_FromArray(data)})

ToInt ==
    Returns("ToInt", 0, Vector_ToInt(pkg, kind, a))

ToInt64 ==
    Returns("ToInt64", 0, Vector_ToInt64(pkg, kind, a))

Clamp(M) ==
    \E min \in M, max \in M :
        /\ pkg \in {2, 4}
        /\ Returns("Clamp", <<min, max>>,
                   CASE pkg = 2 -> V2_Clamp(kind, a, min, max)
                     [] pkg = 4 -> V4_Clamp(kind, a, min, max))

Normalized ==
    /\ pkg \in {2, 3}
    /\ Returns("Normalized", 0,
               CASE pkg = 2 -> V2_Normalized(kind, a)
                 [] pkg = 3 -> V3_Normalized(kind, a))

Length ==
    /\ pkg \in {2, 3}
    /\ Returns("Length", 0, Vector_Length(pkg, kind, a))

RoundToInt ==
    /\ pkg \in {2, 4}
    /\ Returns("RoundToInt", 0, Vector_RoundToInt(pkg, kind, a))

FloorToInt ==
    /\ pkg \in {2, 4}
    /\ Returns("FloorToInt", 0, Vector_FloorToInt(pkg, kind, a))

CeilToInt ==
    /\ pkg \in {2, 4}
    /\ Returns("CeilToInt", 0, Vector_CeilToInt(pkg, kind, a))

\* the builds of a kind: integer arithmetic is the same on all
Builds(k) == IF IsInt(k) THEN {"none"} ELSE Fusions

Cross ==
    \E f \in Builds(kind) :
        pkg = 3 /\ Returns("Cross", f, {V3_Cross(f, kind, a, b)})

Perpendicular ==
    \E f \in Builds(kind) :
        /\ pkg \in {2, 3}
        /\ Returns("Perpendicular", f,
                   {CASE pkg = 2 -> V2_Perpendicular(kind, a)
                      [] pkg = 3 -> V3_Perpendicular(f, kind, a)})

Flip ==
    /\ pkg \in {2, 3}
    /\ Returns("Flip", 0, {CASE pkg = 2 -> V2_Flip(kind, a)
                             [] pkg = 3 -> V3_Flip(kind, a)})

\* a.Refract(b, eta); arg keeps eta and the difference under the root
Refract(E) ==
    /\ pkg = 3
    /\ \E eta \in E : \E r \in V3_Refract(kind, a, b, eta) :
        /\ Idle
        /\ op' = "Refract"
        /\ arg' = [eta |-> eta, under |-> r.under]
        /\ res' = r.out
        /\ err' = "none"
        /\ UNCHANGED <<pkg, kind, a, b>>

\* the pairs of its two vectors a client compares
Pairs == {"a", "b"} \X {"a", "b"}

\* the vector a name of a pair stands for
Named(n) == IF n = "a" THEN a ELSE b

Less ==
    \E p \in Pairs :
        pkg = 2 /\ Returns("Less", p, {V2_Less(kind, Named(p[1]), Named(p[2]))})

LessEq ==
    \E p \in Pairs :
        pkg = 2 /\ Returns("LessEq", p, {V2_LessEq(kind, Named(p[1]), Named(p[2]))})

Greater ==
    \E p \in Pairs :
        pkg = 2 /\ Returns("Greater", p, {V2_Greater(kind, Named(p[1]), Named(p[2]))})

GreaterEq ==
    \E p \in Pairs :
        pkg = 2 /\ Returns("GreaterEq", p, {V2_GreaterEq(kind, Named(p[1]), Named(p[2]))})

\* RandRange(r, min, max); arg keeps the source and the two bounds
RandRange(S, M) ==
    \E r \in S : \E min \in M, max \in M :
        /\ pkg = 3
        /\ Returns("RandRange", [r |-> r, min |-> min, max |-> max],
                   V3_RandRange(kind, r, min, max))

\* RandInUnitSphere(r) is called and reaches its loop; arg keeps the source
\* and res the last candidate, none as yet
RandInUnitSphere(S) ==
    \E r \in S :
        /\ pkg = 3 /\ kind = "float64"
        /\ Idle
        /\ op' = "RandInUnitSphere.for"
        /\ arg' = r
        /\ res' = V3_Zero
        /\ err' = "none"
        /\ UNCHANGED <<pkg, kind, a, b>>

\* one turn of the loop: it draws a candidate and tests it, and goes on to
\* return it or goes round
RandInUnitSphere_for ==
    /\ op = "RandInUnitSphere.for"
    /\ \E p \in V3_Candidates(arg) : \E inside \in V3_InUnitSphere(p) :
        /\ res' = p
        /\ op' = IF inside THEN "RandInUnitSphere.return" ELSE "RandInUnitSphere.for"
        /\ UNCHANGED <<pkg, kind, a, b, arg, err>>

\* return p
RandInUnitSphere_return ==
    /\ op = "RandInUnitSphere.return"
    /\ op' = "RandInUnitSphere"
    /\ UNCHANGED <<pkg, kind, a, b, arg, res, err>>

Min == Returns("Min", 0, Vector_Min(pkg, kind, a, b))

Max == Returns("Max", 0, Vector_Max(pkg, kind, a, b))

\* Average(vectors); arg keeps the list
Average(L) ==
    \E vectors \in L :
        /\ pkg \in {3, 4}
        /\ Returns("Average", vectors,
                   IF pkg = 3 THEN V3_Average(kind, vectors)
                   ELSE V4_Average(kind, vectors))

\* AverageVector3(vectors) of the float64 Vector3; arg keeps the list
AverageVector3(L) ==
    \E vectors \in L :
        /\ pkg = 3 /\ kind = "float64"
        /\ Returns("AverageVector3", vectors, {Vector3_Average(vectors)})

Dx == \E d \in Tiny(kind) : pkg = 2 /\ Returns("Dx", d, {V2_Dx(kind, a, d)})

Dy == \E d \in Tiny(kind) : pkg = 2 /\ Returns("Dy", d, {V2_Dy(kind, a, d)})

YX == pkg = 2 /\ Returns("YX", 0, {V2_YX(a)})

XZY == pkg = 3 /\ Returns("XZY", 0, {V3_XZY(a)})

\* a SetX that writes the component into its receiver
SetX_InPlace ==
    \E c \in Tiny(kind) :
        /\ pkg = 4
        /\ Idle
        /\ op' = "SetX"
        /\ arg' = c
        /\ a' = V4_SetX(a, c)
        /\ res' = a'
        /\ err' = "none"
        /\ UNCHANGED <<pkg, kind, b>>

SetX == \E c \in Tiny(kind) : pkg = 4 /\ Returns("SetX", c, {V4_SetX(a, c)})

SetY == \E c \in Tiny(kind) : pkg = 4 /\ Returns("SetY", c, {V4_SetY(a, c)})

SetZ == \E c \in Tiny(kind) : pkg = 4 /\ Returns("SetZ", c, {V4_SetZ(a, c)})

SetW == \E c \in Tiny(kind) : pkg = 4 /\ Returns("SetW", c, {V4_SetW(a, c)})

\* the errors json.Unmarshal returns
JSONErrors == {"SyntaxError", "UnmarshalTypeError"}

\* json.Marshal(a): the text, or the encoder's error
MarshalJSON ==
    LET r == CASE pkg = 2 -> V2_MarshalJSON(kind, a)
               [] pkg = 3 -> V3_MarshalJSON(kind, a)
               [] pkg = 4 -> V4_MarshalJSON(kind, a)
    IN  /\ Idle
        /\ op' = "MarshalJSON"
        /\ arg' = 0
        /\ res' = r.data
        /\ err' = r.err
        /\ UNCHANGED <<pkg, kind, a, b>>

\* b.UnmarshalJSON(data), the method with the pointer receiver: it returns
\* nil or an error, or panics, and b is what it left in the receiver
Unmarshal(data) ==
    \E r \in (CASE pkg = 2 -> V2_UnmarshalJSON(kind, b, data)
                [] pkg = 3 -> V3_UnmarshalJSON(kind, b, data)
                [] pkg = 4 -> V4_UnmarshalJSON(kind, b, data)) :
        /\ Idle
        /\ op' = "UnmarshalJSON"
        /\ arg' = data
        /\ res' = 0
        /\ err' = r.err
        /\ b' = r.v
        /\ UNCHANGED <<pkg, kind, a>>

\* called with a document of D
UnmarshalJSON(D) == \E data \in D : Unmarshal(data)

\* called with the text MarshalJSON has just returned
UnmarshalMarshalled == op = "MarshalJSON" /\ err = "nil" /\ Unmarshal(res)

Init ==
    /\ pkg \in Pkgs
    /\ kind \in Kinds
    /\ a \in Few(pkg, Tiny(kind))
    /\ b \in Few(pkg, Tiny(kind))
    /\ arg = 0
    /\ op = "init"
    /\ res = 0
    /\ err = "none"

Next ==
    \/ Add \/ Sub \/ Scale(Scalars) \/ Lerp(Scalars) \/ Midpoint
    \/ FromArray(Arrays({OneT(kind)}))
    \/ ToInt \/ ToInt64 \/ RoundToInt \/ FloorToInt \/ CeilToInt
    \/ Clamp(Tiny(kind)) \/ Normalized \/ Length
    \/ Dot \/ LengthSquared \/ DistanceSquared \/ Distance
    \/ Cross \/ Perpendicular \/ Flip \/ Refract(Ratios)
    \/ Less \/ LessEq \/ Greater \/ GreaterEq \/ Min \/ Max
    \/ Average({<<a, b>>}) \/ AverageVector3({<<a, b>>})
    \/ RandRange({{Fl(1, 2)}}, Tiny(kind)) \/ RandInUnitSphere({{0, Fl(1, 2)}})
    \/ RandInUnitSphere_for \/ RandInUnitSphere_return
    \/ Dx \/ Dy \/ YX \/ XZY \/ SetX \/ SetY \/ SetZ \/ SetW
    \/ MarshalJSON \/ UnmarshalJSON(FewDocs(pkg)) \/ UnmarshalMarshalled

Spec == Init /\ [][Next]_vars

---------------------------------------------------------------------------
(* Decoding: every document, into a vector that holds values               *)

InitJSON ==
    /\ pkg \in Pkgs
    /\ kind \in Kinds
    /\ a = Zero(pkg)
    /\ b \in Few(pkg, Tiny(kind))
    /\ arg = 0
    /\ op = "init"
    /\ res = 0
    /\ err = "none"

NextJSON == MarshalJSON \/ UnmarshalJSON(Docs(pkg)) \/ UnmarshalMarshalled

SpecJSON == InitJSON /\ [][NextJSON]_vars
---------------------------------------------------------------------------
(* The round trip: encoding a vector and decoding the text into another    *)

InitRoundTrip ==
    /\ pkg \in Pkgs
    /\ kind \in Kinds
    /\ a \in {Mixed(pkg, c, d) : c \in Rich(kind), d \in Rich(kind)}
    /\ b = Zero(pkg)
    /\ arg = 0
    /\ op = "init"
    /\ res = 0
    /\ err = "none"

NextRoundTrip == MarshalJSON \/ UnmarshalMarshalled

SpecRoundTrip == InitRoundTrip /\ [][NextRoundTrip]_vars

---------------------------------------------------------------------------
(* FromArray on arrays shorter and longer than the vector                  *)

InitFromArray ==
    /\ pkg \in Pkgs
    /\ kind \in Kinds
    /\ a = Zero(pkg)
    /\ b = Zero(pkg)
    /\ arg = 0
    /\ op = "init"
    /\ res = 0
    /\ err = "none"

NextFromArray == FromArray(Arrays(Tiny(kind)))

SpecFromArray == InitFromArray /\ [][NextFromArray]_vars

---------------------------------------------------------------------------
(* The identities of Add, Sub and Scale: b is the zero vector or a itself  *)

InitAlgebra ==
    /\ pkg \in Pkgs
    /\ kind \in Kinds
    /\ a \in {Mixed(pkg, c, d) : c \in Rich(kind), d \in Rich(kind)}
    /\ b \in {Zero(pkg), a}
    /\ arg = 0
    /\ op = "init"
    /\ res = 0
    /\ err = "none"

NextAlgebra == Add \/ Sub \/ Scale({0, Fl(1, 1)})

SpecAlgebra == InitAlgebra /\ [][NextAlgebra]_vars

---------------------------------------------------------------------------
(* Interpolation: from a vector of one value to any other                  *)

InitLerp ==
    /\ pkg \in Pkgs
    /\ kind \in Kinds
    /\ a \in {Mixed(pkg, c, c) : c \in Ends(kind)}
    /\ b \in {Mixed(pkg, c, d) : c \in Ends(kind), d \in Ends(kind)}
    /\ arg = 0
    /\ op = "init"
    /\ res = 0
    /\ err = "none"

NextLerp == Lerp(Scalars) \/ Midpoint

SpecLerp == InitLerp /\ [][NextLerp]_vars

---------------------------------------------------------------------------
(* Normalising: the packages that have a Length                            *)

InitNormalized ==
    /\ pkg \in {2, 3}
    /\ kind \in Kinds
    /\ a \in Vecs(pkg, Sides(kind))
    /\ b = Zero(pkg)
    /\ arg = 0
    /\ op = "init"
    /\ res = 0
    /\ err = "none"

NextNormalized == Normalized \/ Length

SpecNormalized == InitNormalized /\ [][NextNormalized]_vars

---------------------------------------------------------------------------
(* Converting to the integer kinds                                         *)

InitConv ==
    /\ pkg \in Pkgs
    /\ kind \in Kinds
    /\ a \in {Mixed(pkg, c, d) : c \in Fractions(kind), d \in Fractions(kind)}
    /\ b = Zero(pkg)
    /\ arg = 0
    /\ op = "init"
    /\ res = 0
    /\ err = "none"

NextConv == ToInt \/ ToInt64 \/ RoundToInt \/ FloorToInt \/ CeilToInt

SpecConv == InitConv /\ [][NextConv]_vars

---------------------------------------------------------------------------
(* Clamping: every vector between every two bounds, in the packages whose  *)
(* Clamp is built on math.Min and math.Max                                 *)

InitClamp ==
    /\ pkg \in {2, 4}
    /\ kind \in Kinds
    /\ a \in {Mixed(pkg, c, d) : c \in Ends(kind), d \in Ends(kind)}
    /\ b = Zero(pkg)
    /\ arg = 0
    /\ op = "init"
    /\ res = 0
    /\ err = "none"

SpecClamp == InitClamp /\ [][Clamp(Limits(kind))]_vars

---------------------------------------------------------------------------
(* Products and lengths: any vector against a vector of one value          *)

InitMetric ==
    /\ pkg \in Pkgs
    /\ kind \in Kinds
    /\ a \in {Mixed(pkg, c, d) : c \in Ends(kind), d \in Ends(kind)}
    /\ b \in {Mixed(pkg, c, c) : c \in Ends(kind)}
    /\ arg = 0
    /\ op = "init"
    /\ res = 0
    /\ err = "none"

SpecMetric ==
    InitMetric /\ [][Dot \/ LengthSquared \/ Length \/ DistanceSquared \/ Distance]_vars

---------------------------------------------------------------------------
(* Cross products and perpendiculars: every vector, those along an axis    *)
(* included, against itself, against the vectors of one value and against  *)
(* those in the plane of Y and Z                                           *)

InitCross ==
    /\ pkg \in {2, 3}
    /\ kind \in Kinds
    /\ a \in Vecs(pkg, Axes(kind))
    /\ b \in {a} \cup {Mixed(pkg, ZeroT, d) : d \in Axes(kind)}
               \cup {Mixed(pkg, d, d) : d \in Axes(kind)}
    /\ arg = 0
    /\ op = "init"
    /\ res = 0
    /\ err = "none"

SpecCross == InitCross /\ [][Cross \/ Perpendicular \/ Flip]_vars

---------------------------------------------------------------------------
(* Refraction: rays against normals, past the critical angle included      *)

InitRefract ==
    /\ pkg = 3
    /\ kind \in Kinds
    /\ a \in Vecs(pkg, Rays(kind))
    /\ b \in {Mixed(pkg, ZeroT, d) : d \in Rays(kind)}
               \cup {Mixed(pkg, d, d) : d \in Rays(kind)}
    /\ arg = 0
    /\ op = "init"
    /\ res = 0
    /\ err = "none"

SpecRefract == InitRefract /\ [][Refract(Ratios)]_vars

---------------------------------------------------------------------------

(* Ordering: every pair of vectors, either way round and each with itself  *)

InitOrder ==
    /\ pkg = 2
    /\ kind \in Kinds
    /\ a \in Vecs(pkg, Axes(kind))
    /\ b \in Vecs(pkg, Axes(kind))
    /\ arg = 0
    /\ op = "init"
    /\ res = 0
    /\ err = "none"

SpecOrder == InitOrder /\ [][Less \/ LessEq \/ Greater \/ GreaterEq]_vars

---------------------------------------------------------------------------

(* Random vectors between every pair of bounds                             *)

InitRand ==
    /\ pkg = 3
    /\ kind \in Kinds
    /\ a = V3_Zero
    /\ b = V3_Zero
    /\ arg = 0
    /\ op = "init"
    /\ res = 0
    /\ err = "none"

SpecRand == InitRand /\ [][RandRange(FewSources, Ranges(kind))]_vars

---------------------------------------------------------------------------
(* Random points in the unit sphere, from the call on, with every source   *)
(* over the draws.  A source that can yield a candidate inside the sphere  *)
(* yields one in the end, and a call that has its result returns it.       *)

InitSphere ==
    /\ pkg = 3
    /\ kind = "float64"
    /\ a = V3_Zero
    /\ b = V3_Zero
    /\ arg \in Sources
    /\ op = "RandInUnitSphere.for"
    /\ res = V3_Zero
    /\ err = "none"

NextSphere ==
    \/ RandInUnitSphere(Sources)
    \/ RandInUnitSphere_for
    \/ RandInUnitSphere_return

\* the squared length of p is below 1 (on some build, where they differ)
Inside(p) == \E l \in V3_LengthSquared("float64", p) : FLt(l, Fl(1, 1))

\* the sources that can yield a candidate inside the sphere
Yielding ==
    UNION {IF \E p \in V3_Candidates(r) : Inside(p) THEN {r} ELSE {} : r \in Sources}

CanYield(r) == r \in Yielding

\* a source that can yield a candidate inside the sphere does not keep the
\* loop turning for ever
FairSource ==
    (op = "RandInUnitSphere.for" /\ CanYield(arg)) ~> (op # "RandInUnitSphere.for")

SpecSphere ==
    InitSphere /\ [][NextSphere]_vars /\ WF_vars(RandInUnitSphere_return) /\ FairSource

---------------------------------------------------------------------------

(* The smaller and the larger of every pair of vectors                     *)

InitMinMax ==
    /\ pkg \in Pkgs
    /\ kind \in Kinds
    /\ a \in Few(pkg, Peaks(kind)) \cup {Counted(pkg, kind)}
    /\ b \in Few(pkg, Peaks(kind)) \cup {Reversed(pkg, kind)}
    /\ arg = 0
    /\ op = "init"
    /\ res = 0
    /\ err = "none"

SpecMinMax == InitMinMax /\ [][Min \/ Max]_vars

---------------------------------------------------------------------------

(* The average of every list                                               *)

InitAverage ==
    /\ pkg \in {3, 4}
    /\ kind \in Kinds
    /\ a = Zero(pkg)
    /\ b = Zero(pkg)
    /\ arg = 0
    /\ op = "init"
    /\ res = 0
    /\ err = "none"

SpecAverage ==
    InitAverage /\ [][Average(Lists(pkg, kind)) \/ AverageVector3(Lists(pkg, kind))]_vars

---------------------------------------------------------------------------

(* Claims                                                                  *)

\* C1 as stated: no operation changes the vector it is called on or a
\* vector it is given; after any call a and b hold what they held before.
C1_NothingMutates == [][a' = a /\ b' = b]_vars

\* C1: a call never changes the vector it is called on or a vector it is
\* given, except UnmarshalJSON, which overwrites its receiver when (and only
\* when) it returns nil.
C1_OnlyUnmarshalJSONMutates ==
    [][a' = a /\ (b' # b => op' = "UnmarshalJSON" /\ err' = "nil")]_vars

C1_Witness ==
    op = "UnmarshalJSON" /\ err = "nil" /\ b \notin Few(pkg, Tiny(kind))

\* C2: when UnmarshalJSON returns an error, every component of its receiver
\* holds the value it held before the call.
C2_ErrorLeavesTarget ==
    [][(op' = "UnmarshalJSON" /\ err' \in JSONErrors) => b' = b]_vars

\* an object whose "x" was decoded before a later member failed, into a
\* vector that held values
C2_Witness ==
    /\ op = "UnmarshalJSON" /\ err = "UnmarshalTypeError"
    /\ arg.t = "object" /\ "x" \in DOMAIN arg.f
    /\ arg.f["x"] = JNumber(FormatFloat(Fl(3, 2)))
    /\ b \in Few(pkg, Tiny(kind))

\* the wire format: an object with exactly the component keys, each a number
WireShape(p, d) ==
    /\ d.t = "object"
    /\ DOMAIN d.f = Keys(p)
    /\ \A key \in Keys(p) : d.f[key].t = "number"

\* a number within the range of float64
InRange(m) == m.t = "number" /\ Abs(m.n) < PInf * 2^DecBits

\* an object each of whose component members, where present, is null or a
\* number within the range of float64
Lenient(p, d) ==
    /\ d.t = "object"
    /\ \A key \in Keys(p) \cap DOMAIN d.f : d.f[key].t = "null" \/ InRange(d.f[key])

\* C3 as stated: every document that is not of the wire format gets an
\* error returned.
C3_ErrorUnlessWireShape ==
    (op = "UnmarshalJSON" /\ ~WireShape(pkg, arg)) => err \in JSONErrors

\* C3: UnmarshalJSON returns nil exactly for an object each of whose
\* component members, where present, is null or a number in range (missing
\* and unknown keys are accepted); it panics exactly for the literal null;
\* and it returns an error for every other document: malformed text, an
\* array, string or number, and an object with a component member that is
\* neither a number in range nor null.
C3_NilIffLenientObject ==
    op = "UnmarshalJSON" =>
        /\ err = "nil" <=> Lenient(pkg, arg)
        /\ err = "panic" <=> arg.t = "null"
        /\ err \in JSONErrors <=> (arg.t # "null" /\ ~Lenient(pkg, arg))

\* an object with "x": null and without the other keys is decoded
C3_Witness ==
    /\ op = "UnmarshalJSON" /\ err = "nil"
    /\ arg.t = "object" /\ DOMAIN arg.f = {"x"} /\ arg.f["x"].t = "null"
\* a step that decodes the text MarshalJSON has just returned
RoundTripStep ==
    op = "MarshalJSON" /\ err = "nil" /\ op' = "UnmarshalJSON" /\ arg' = res

\* C4 as stated: decoding the text of any vector succeeds and gives a vector
\* equal to the one encoded, whatever the kind and the component values.
C4_RoundTripAlways ==
    [][RoundTripStep => (err' = "nil" /\ VecEq(pkg, kind, b', a))]_vars

\* components float64 holds exactly: finite floats, and integers of
\* magnitude at most 2^MantBits
Exact(k, v) ==
    \A i \in DOMAIN Comps(pkg, v) :
        IF IsInt(k) THEN Abs(Comps(pkg, v)[i]) <= 2^MantBits
        ELSE IsFinite(Comps(pkg, v)[i])

\* C4: MarshalJSON succeeds unless a component is NaN or infinite, and for a
\* vector whose components are finite floats or integers that float64 holds
\* exactly (every value of the narrow kinds, a wide integer of magnitude at
\* most 2^MantBits) decoding its text succeeds and gives an equal vector.
C4_RoundTripOfExact ==
    [][/\ op' = "MarshalJSON" =>
              (err' = "nil" <=> \A i \in DOMAIN Comps(pkg, a) : IsFinite(ToF(kind, Comps(pkg, a)[i])))
       /\ (RoundTripStep /\ Exact(kind, a)) =>
              (err' = "nil" /\ VecEq(pkg, kind, b', a))]_vars

\* the largest wide integers float64 holds exactly have made the trip
C4_Witness ==
    /\ op = "UnmarshalJSON" /\ err = "nil" /\ kind = "int64"
    /\ a = Mixed(pkg, 2^MantBits, 0 - 2^MantBits)
    /\ b = a
\* C5: FromArray(data) returns the vector whose component i is data[i] where
\* the array has one and zero where it has none; elements beyond the
\* vector's are ignored, and an empty array gives the zero vector.
C5_FromArray ==
    op = "FromArray" =>
        \A i \in DOMAIN Comps(pkg, res) :
            Comps(pkg, res)[i] = IF i <= Len(arg) THEN arg[i] ELSE 0

\* a four-component vector from three elements: z is the last, w is zero
C5_Witness ==
    /\ op = "FromArray" /\ pkg = 4 /\ Len(arg) = 3
    /\ arg[2] # arg[3] /\ res.z = arg[3] /\ res.w = 0

\* C6 as stated: v.Add(Zero) == v, v.Sub(v) == Zero, v.Scale(1) == v and
\* v.Scale(0) == Zero for every vector of every kind.
C6_IdentitiesAlways ==
    /\ (op = "Add" /\ b = Zero(pkg)) => VecEq(pkg, kind, res, a)
    /\ (op = "Sub" /\ b = a) => VecEq(pkg, kind, res, Zero(pkg))
    /\ (op = "Scale" /\ arg = Fl(1, 1)) => VecEq(pkg, kind, res, a)
    /\ (op = "Scale" /\ arg = 0) => VecEq(pkg, kind, res, Zero(pkg))

\* no component is NaN or infinite
Finite(k, v) ==
    \A i \in DOMAIN Comps(pkg, v) : IsFinite(ToF(k, Comps(pkg, v)[i]))

\* C6: for integer kinds v.Add(Zero) == v, v.Sub(v) == Zero and
\* v.Scale(0) == Zero for every v, the extremes included, and
\* v.Scale(1) == v when float64 holds every component exactly (magnitude at
\* most 2^MantBits); for float kinds the four hold when every component of v
\* is finite.
C6_Identities ==
    /\ (op = "Add" /\ b = Zero(pkg) /\ (IsInt(kind) \/ Finite(kind, a)))
           => VecEq(pkg, kind, res, a)
    /\ (op = "Sub" /\ b = a /\ (IsInt(kind) \/ Finite(kind, a)))
           => VecEq(pkg, kind, res, Zero(pkg))
    /\ (op = "Scale" /\ arg = Fl(1, 1) /\ Exact(kind, a))
           => VecEq(pkg, kind, res, a)
    /\ (op = "Scale" /\ arg = 0 /\ (IsInt(kind) \/ Finite(kind, a)))
           => VecEq(pkg, kind, res, Zero(pkg))

\* Scale(1) on the largest wide integers float64 holds exactly
C6_Witness ==
    /\ op = "Scale" /\ arg = Fl(1, 1) /\ kind = "int64"
    /\ a = Mixed(pkg, 2^MantBits, 0 - 2^MantBits)
    /\ res = a
ExactStep(k, va, vb) ==
    \A i \in DOMAIN Comps(pkg, va) :
        LET x == Comps(pkg, va)[i]
            y == Comps(pkg, vb)[i]
        IN  IF k = "int8" THEN TRUE
            ELSE IF IsInt(k)
                 THEN Abs(x) <= 2^MantBits /\ Abs(y) <= 2^MantBits
                          /\ Abs(y - x) <= 2^MantBits
            ELSE IsFinite(x) /\ IsFinite(y) /\ FSub(y, x) = y - x

C8_MidpointIsLerpAlways ==
    op = "Midpoint" =>
        \A r \in Vector_Lerp(pkg, kind, a, b, Fl(1, 2)) : VecEq(pkg, kind, res, r)

\* for every component, x + y and y - x are computed without wrap-around
\* and without rounding, and their halves are exact or are truncated alike
SameHalves(p, k, va, vb) ==
    \A i \in DOMAIN Comps(p, va) :
        LET x == Comps(p, va)[i]
            y == Comps(p, vb)[i]
        IN  IF IsInt(k)
            THEN /\ x + y \in MinInt(k)..MaxInt(k)
                 /\ y - x \in MinInt(k)..MaxInt(k)
                 /\ Abs(x) <= 2^MantBits /\ Abs(y) <= 2^MantBits
                 /\ Abs(x + y) <= 2^MantBits /\ Abs(y - x) <= 2^MantBits
                 /\ p = 4 => \/ (y - x) % 2 = 0
                             \/ (y - x > 0 /\ x + y > 0)
                             \/ (y - x < 0 /\ x + y < 0)
            ELSE /\ IsFinite(x) /\ IsFinite(y)
                 /\ FAdd(x, y) = x + y /\ FSub(y, x) = y - x
                 /\ (x + y) % 2 = 0

\* C8: Midpoint(a, b) equals Lerp(a, b, 0.5) in every component when a + b
\* and b - a neither wrap around nor need rounding: for integer kinds when
\* both fit the kind and float64 holds them exactly (in vector4, whose Lerp
\* truncates (b - a)/2 before it adds a, b - a must also be even or of the
\* sign of a + b); for float kinds when a + b, b - a and their halves are
\* exact.
C8_MidpointIsLerp ==
    (op = "Midpoint" /\ SameHalves(pkg, kind, a, b)) =>
        \A r \in Vector_Lerp(pkg, kind, a, b, Fl(1, 2)) : VecEq(pkg, kind, res, r)

\* between 3 and 100 in int8: 51.5 is truncated to 51
C8_Witness ==
    /\ op = "Midpoint" /\ kind = "int8"
    /\ a = Mixed(pkg, 3, 3)
    /\ b = Mixed(pkg, 100, 100)
    /\ res = Mixed(pkg, 51, 51)
\* within two units in the last place of 1
NearOne(l) == IsFinite(l) /\ Abs(l - Fl(1, 1)) <= 2^(FracBits - MantBits + 2)

\* C9 as stated: whenever v.Length() > 0, v.Normalized().Length() is 1 up to
\* rounding, for every kind.
C9_UnitLengthAlways ==
    (op = "Normalized" /\ \A l \in Vector_Length(pkg, kind, a) : FLt(0, l)) =>
        \A l \in Vector_Length(pkg, kind, res) : NearOne(l)

\* the least length whose square is a normal float64
MinLength == 2^(FracBits - (FracBits - MantBits + 1) \div 2)

\* C9: for a float kind, v.Normalized().Length() is 1 up to rounding
\* whenever v.Length() is finite and its square did not underflow.  (For an
\* integer kind Normalized truncates every component toward zero:
\* (3, 4) gives (0, 0), of length 0.)
C9_UnitLength ==
    (/\ op = "Normalized" /\ ~IsInt(kind)
     /\ \A l \in Vector_Length(pkg, kind, a) : IsFinite(l) /\ l >= MinLength) =>
        \A l \in Vector_Length(pkg, kind, res) : NearOne(l)

\* (3, 4) and (3, 4, 0) in float64
C9_Witness ==
    /\ op = "Normalized" /\ kind = "float64"
    /\ a \in {[X |-> Fl(3, 1), Y |-> Fl(4, 1)], [X |-> Fl(3, 1), Y |-> Fl(4, 1), Z |-> 0]}
    /\ \A l \in Vector_Length(pkg, kind, res) : NearOne(l)
    /\ res.X > 0 /\ res.Y > res.X

\* r is c with its fraction dropped: |r| <= |c| < |r| + 1, and r has the
\* sign of c or is zero
Truncated(k, c, r) ==
    IF IsInt(k) THEN r = c
    ELSE /\ IsFinite(c)
         /\ Abs(r) * Q <= Abs(c) /\ Abs(c) < (Abs(r) + 1) * Q
         /\ r = 0 \/ Sgn(r) = Sgn(c)

\* the fraction of c is a half or more
UpperHalf(k, c) == ~IsInt(k) /\ IsFinite(c) /\ Abs(c) % Q >= Q \div 2

\* the conversion of a, by ToInt or by ToInt64, differs from RoundToInt in
\* component i
DiffersFromRound(i) ==
    pkg \in {2, 4} =>
        \A w \in Vector_RoundToInt(pkg, kind, a) : Comps(pkg, w)[i] # Comps(pkg, res)[i]

\* C10 as stated: every component of ToInt and ToInt64 is the component of
\* the vector truncated toward zero, and differs from RoundToInt's when the
\* fraction is a half or more.
C10_TruncatesAlways ==
    op \in {"ToInt", "ToInt64"} =>
        \A i \in DOMAIN Comps(pkg, a) :
            /\ Truncated(kind, Comps(pkg, a)[i], Comps(pkg, res)[i])
            /\ UpperHalf(kind, Comps(pkg, a)[i]) => DiffersFromRound(i)

\* a finite float whose integer part the 64-bit integers hold
Fits(k, c) ==
    IsInt(k) \/ (/\ IsFinite(c)
                 /\ c > (MinInt("int64") - 1) * Q
                 /\ c < (MaxInt("int64") + 1) * Q)

\* C10: every component of ToInt and ToInt64 that is finite and whose
\* integer part fits the target kind is truncated toward zero, and differs
\* from RoundToInt's when its fraction is a half or more.  (NaN, the
\* infinities and floats beyond the target's range convert to an
\* implementation-dependent value.)
C10_Truncates ==
    op \in {"ToInt", "ToInt64"} =>
        \A i \in DOMAIN Comps(pkg, a) :
            Fits(kind, Comps(pkg, a)[i]) =>
                /\ Truncated(kind, Comps(pkg, a)[i], Comps(pkg, res)[i])
                /\ UpperHalf(kind, Comps(pkg, a)[i]) => DiffersFromRound(i)

\* -2.25 goes to -2 and 5.5 to 5
C10_Witness ==
    /\ op = "ToInt" /\ kind = "float64"
    /\ a = Mixed(pkg, Fl(0 - 9, 4), Fl(11, 2))
    /\ res = Mixed(pkg, 0 - 2, 5)

\* r is the greatest integer at most c, the least integer at least c, the
\* integer nearest to c with a half rounded away from zero
IsFloor(k, c, r) ==
    IF IsInt(k) THEN r = c ELSE IsFinite(c) /\ r * Q <= c /\ c < (r + 1) * Q

IsCeil(k, c, r) ==
    IF IsInt(k) THEN r = c ELSE IsFinite(c) /\ (r - 1) * Q < c /\ c <= r * Q

IsRound(k, c, r) ==
    IF IsInt(k) THEN r = c
    ELSE /\ IsFinite(c)
         /\ \/ 2 * Abs(c - r * Q) < Q
            \/ 2 * Abs(c - r * Q) = Q /\ Abs(r * Q) > Abs(c)

\* the three roundings of a, in component i, are what they should be and
\* are in order, the floor and the ceiling at most one apart
RoundsIn(i) ==
    LET c == Comps(pkg, a)[i]
        r == Comps(pkg, res)[i]
    IN  /\ op = "FloorToInt" => IsFloor(kind, c, r)
        /\ op = "CeilToInt" =>
               /\ IsCeil(kind, c, r)
               /\ \A f \in Vector_FloorToInt(pkg, kind, a) :
                      r - Comps(pkg, f)[i] \in {0, 1}
        /\ op = "RoundToInt" =>
               /\ IsRound(kind, c, r)
               /\ \A f \in Vector_FloorToInt(pkg, kind, a) : Comps(pkg, f)[i] <= r
               /\ \A u \in Vector_CeilToInt(pkg, kind, a) : r <= Comps(pkg, u)[i]

\* C11 as stated: for every component c of every vector, FloorToInt gives
\* the greatest integer at most c, CeilToInt the least integer at least c
\* and RoundToInt the nearest integer, halves away from zero; so floor <=
\* round <= ceiling, and ceiling - floor is 0 or 1.
C11_RoundsAlways ==
    op \in {"FloorToInt", "CeilToInt", "RoundToInt"} =>
        \A i \in DOMAIN Comps(pkg, a) : RoundsIn(i)

\* a component float64 holds exactly and whose roundings the 64-bit
\* integers hold
Roundable(k, c) == IF IsInt(k) THEN ToF(k, c) = c * Q ELSE Fits(k, c)

\* C11: in vector2 and vector4, for every component c that is an integer
\* float64 holds exactly (every value of a narrow kind) or a finite float
\* within the range of the 64-bit integers, FloorToInt gives the greatest
\* integer at most c, CeilToInt the least integer at least c and RoundToInt
\* the nearest integer, halves away from zero; so floor <= round <= ceiling,
\* and ceiling - floor is 0 or 1.  (A wide integer is first rounded to a
\* float64; NaN, the infinities and floats beyond the range convert to an
\* implementation-dependent value.)
C11_Rounds ==
    op \in {"FloorToInt", "CeilToInt", "RoundToInt"} =>
        \A i \in DOMAIN Comps(pkg, a) :
            Roundable(kind, Comps(pkg, a)[i]) => RoundsIn(i)

\* (1.75, -2.25, ..): the ceiling is (2, -2, ..), the floor (1, -3, ..) and
\* the nearest (2, -2, ..)
C11_Witness ==
    /\ op = "CeilToInt" /\ kind = "float64"
    /\ a = Mixed(pkg, Fl(7, 4), Fl(0 - 9, 4))
    /\ res = Mixed(pkg, 2, 0 - 2)
    /\ Mixed(pkg, 1, 0 - 3) \in Vector_FloorToInt(pkg, kind, a)
    /\ Mixed(pkg, 2, 0 - 2) \in Vector_RoundToInt(pkg, kind, a)

\* x < y and x <= y on operands of kind k, as Go compares them
\* r is c clamped to [min, max], and lies between the two
ClampedTo(k, c, min, max, r) ==
    /\ r = IF Lt(k, c, min) THEN min ELSE IF Lt(k, max, c) THEN max ELSE c
    /\ Le(k, min, r) /\ Le(k, r, max)

\* C12 as stated: for min <= max, Clamp maps every component c to min if
\* c < min, to max if c > max and to c otherwise, so that every component of
\* the result lies in [min, max], for every vector of every kind.
C12_ClampsAlways ==
    (op = "Clamp" /\ Le(kind, arg[1], arg[2])) =>
        \A i \in DOMAIN Comps(pkg, a) :
            ClampedTo(kind, Comps(pkg, a)[i], arg[1], arg[2], Comps(pkg, res)[i])

\* a value Clamp takes through float64 unchanged: an integer float64 holds
\* exactly, or a float that is not NaN
Clampable(k, c) == IF IsInt(k) THEN ToF(k, c) = c * Q ELSE ~IsNaN(c)

\* C12: in vector2 and vector4, for min <= max, Clamp maps each component c
\* independently to min if c < min, to max if c > max and to c otherwise, so
\* that it lies in [min, max], when c is a float that is not NaN, or when
\* c, min and max are integers float64 holds exactly (every value of a
\* narrow kind, a wide integer of magnitude at most 2^MantBits).  (A NaN
\* component stays NaN; wide integers are compared and returned as rounded
\* to float64.)
C12_Clamps ==
    (op = "Clamp" /\ Le(kind, arg[1], arg[2])) =>
        \A i \in DOMAIN Comps(pkg, a) :
            (/\ Clampable(kind, Comps(pkg, a)[i])
             /\ Clampable(kind, arg[1]) /\ Clampable(kind, arg[2])) =>
                ClampedTo(kind, Comps(pkg, a)[i], arg[1], arg[2], Comps(pkg, res)[i])

\* (0.5, -2.5, ..) clamped to [1, 3] is (1, 1, ..), and (200, 1, ..) is
\* (3, 1, ..)
C12_Witness ==
    /\ op = "Clamp" /\ kind = "float64" /\ arg = <<Fl(1, 1), Fl(3, 1)>>
    /\ \/ a = Mixed(pkg, Fl(1, 2), Fl(0 - 5, 2)) /\ res = Mixed(pkg, Fl(1, 1), Fl(1, 1))
       \/ a = Mixed(pkg, Fl(200, 1), Fl(1, 1)) /\ res = Mixed(pkg, Fl(3, 1), Fl(1, 1))

\* C13 as stated: called with min > max, Clamp returns max in every
\* component, whatever the vector.
C13_MaxWhenCrossedAlways ==
    (op = "Clamp" /\ Lt(kind, arg[2], arg[1])) =>
        \A i \in DOMAIN Comps(pkg, res) : TEq(kind, Comps(pkg, res)[i], arg[2])

\* C13: in vector2 and vector4, called with min > max, Clamp does not fail
\* and returns min, the bound applied last, in every component, whatever the
\* component was, provided the component is not NaN and, for an integer
\* kind, float64 holds min exactly.
C13_MinWhenCrossed ==
    (op = "Clamp" /\ Lt(kind, arg[2], arg[1]) /\ Clampable(kind, arg[1])) =>
        /\ err = "none"
        /\ \A i \in DOMAIN Comps(pkg, res) :
               (IsInt(kind) \/ ~IsNaN(Comps(pkg, a)[i])) =>
                   TEq(kind, Comps(pkg, res)[i], arg[1])

\* between min = 3 and max = 0, a vector below, and a vector above and
\* inside, give (3, 3, ..)
C13_Witness ==
    /\ op = "Clamp" /\ kind = "int8" /\ arg = <<3, 0>>
    /\ a \in {Mixed(pkg, 0 - 100, 0 - 128), Mixed(pkg, 100, 3)}
    /\ res = Mixed(pkg, 3, 3)

\* the value c of kind k, counted in quarters
Quarters(k, c) == IF IsInt(k) THEN 4 * c ELSE c \div (Q \div 4)

\* every component is an integer, or a float that is a multiple of a
\* quarter of magnitude at most 4: its products are sixteenths
Plain(p, k, v) ==
    \A i \in DOMAIN Comps(p, v) :
        LET c == Comps(p, v)[i]
        IN  IsInt(k) \/ (IsFinite(c) /\ c % (Q \div 4) = 0 /\ Abs(c) <= 4 * Q)

RECURSIVE SumOf(_)
SumOf(s) == IF s = <<>> THEN 0 ELSE Head(s) + SumOf(Tail(s))

\* the products x[i] * y[i] of two sequences of quarters, in sixteenths
Products(x, y) == [i \in DOMAIN x |-> x[i] * y[i]]

Magnitudes(s) == [i \in DOMAIN s |-> Abs(s[i])]

\* the components of v, and of o - v, in quarters
InQuarters(p, k, v) == [i \in DOMAIN Comps(p, v) |-> Quarters(k, Comps(p, v)[i])]

Apart(p, k, v, o) ==
    [i \in DOMAIN Comps(p, v) |-> Quarters(k, Comps(p, o)[i]) - Quarters(k, Comps(p, v)[i])]

\* the result r is the sum of the terms (sixteenths): the very integer for
\* an integer kind, whether r is of that kind or a float64, and for a float
\* kind the sum up to the rounding of each product and each addition
Agrees(k, r, terms) ==
    IF IsInt(k)
    THEN IF IsInt(r.kind) THEN 16 * r.val = SumOf(terms)
         ELSE /\ IsFinite(r.val) /\ r.val % Q = 0
              /\ 16 * (r.val \div Q) = SumOf(terms)
    ELSE /\ IsFinite(r.val) /\ r.val % (Q \div 16) = 0
         /\ Abs(r.val \div (Q \div 16) - SumOf(terms)) * 2^MantBits
                <= (Len(terms) + 1) * SumOf(Magnitudes(terms))

SumFits(k, t, sum) ==
    IsInt(k) =>
        /\ MinInt(k) * 16 <= sum /\ sum <= MaxInt(k) * 16
        /\ ~IsInt(t) => ToF(k, sum \div 16) = (sum \div 16) * Q

FloatOf(sum) == Signed(Sgn(sum), RoundE(Abs(sum), FracBits - 4, FALSE))

\* C15 as stated: for every vector of every kind, LengthSquared() is the sum
\* of the squares of the components, and so is never negative, and Length()
\* is the square root of that sum, also for a narrow integer kind whose sum
\* of squares is beyond the kind.
C15_LengthAlways ==
    LET terms == Products(InQuarters(pkg, kind, a), InQuarters(pkg, kind, a))
    IN  /\ (op = "LengthSquared" /\ Plain(pkg, kind, a)) =>
               Agrees(kind, res, terms) /\ res.val >= 0
        /\ (op = "Length" /\ IsInt(kind)) => res = FSqrt(FloatOf(SumOf(terms)))

\* C15: LengthSquared() is computed in T (and in vector3 converted to
\* float64), and Length() is the square root of LengthSquared() as a
\* float64.  For an integer kind the sum of the squares wraps around, so
\* LengthSquared() is that sum, and Length() its root, when the sum is a
\* value of T (and one float64 holds exactly); beyond that LengthSquared()
\* can be negative and Length() NaN.  For a float kind LengthSquared() is the
\* sum up to the rounding of each operation, and never negative.
C15_Length ==
    LET terms == Products(InQuarters(pkg, kind, a), InQuarters(pkg, kind, a))
    IN  /\ op = "LengthSquared" =>
               /\ res.kind = IF pkg = 2 THEN kind ELSE "float64"
               /\ (Plain(pkg, kind, a) /\ SumFits(kind, res.kind, SumOf(terms))) =>
                      Agrees(kind, res, terms) /\ res.val >= 0
               /\ (~IsInt(kind) /\ ~IsNaN(res.val)) => res.val >= 0
        /\ op = "Length" =>
               /\ \E l \in Vector_LengthSquared(pkg, kind, a) :
                      res = FSqrt(ToF(l.kind, l.val))
               /\ (IsInt(kind) /\ SumFits(kind, "float64", SumOf(terms))) =>
                      res = FSqrt(FloatOf(SumOf(terms)))

\* the int8 vector (3, 0, ..) has length 3, and the float64 (3, 0, ..) too
C15_Witness ==
    /\ op = "Length" /\ kind \in {"int8", "float64"}
    /\ a = Mixed(pkg, OneT(kind) * 3, 0)
    /\ res = Fl(3, 1)

\* C16 as stated: for every pair of vectors of every kind,
\* a.DistanceSquared(b) is the sum of the (b_i - a_i)^2 and a.Distance(b)
\* its square root, so a.Distance(b) == b.Distance(a), a.Distance(a) == 0
\* and a.Distance(b) == b.Sub(a).Length().
C16_DistanceAlways ==
    LET terms == Products(Apart(pkg, kind, a, b), Apart(pkg, kind, a, b))
    IN  /\ (op = "DistanceSquared" /\ Plain(pkg, kind, a) /\ Plain(pkg, kind, b)) =>
               Agrees(kind, res, terms)
        /\ op = "Distance" =>
               /\ IsInt(kind) => res = FSqrt(FloatOf(SumOf(terms)))
               /\ \E r \in Vector_Distance(pkg, kind, b, a) : FEq(res, r)
               /\ a = b => FEq(res, 0)
               /\ \E l \in Vector_Length(pkg, kind, Vector_Sub(pkg, kind, b, a)) :
                      FEq(res, l)

\* C16: a.DistanceSquared(b) is computed in T (and in vector3 converted to
\* float64) and a.Distance(b) is its square root as a float64.  For an
\* integer kind the differences, their squares and the sum wrap around, so
\* DistanceSquared is the sum of the (b_i - a_i)^2, and Distance its root,
\* when that sum is a value of T (and one float64 holds exactly); for a
\* float kind it is the sum up to the rounding of each operation.
\* a.Distance(b), b.Distance(a) and b.Sub(a).Length() are the same
\* computation and give the same float64; they compare equal, and
\* a.Distance(a) == 0, unless the result is NaN, which it is not for finite
\* floats, nor for integers whose sum of squares is a value of T.
C16_Distance ==
    LET terms == Products(Apart(pkg, kind, a, b), Apart(pkg, kind, a, b))
    IN  /\ op = "DistanceSquared" =>
               /\ res.kind = IF pkg = 2 THEN kind ELSE "float64"
               /\ (/\ Plain(pkg, kind, a) /\ Plain(pkg, kind, b)
                   /\ SumFits(kind, res.kind, SumOf(terms))) => Agrees(kind, res, terms)
        /\ op = "Distance" =>
               /\ \E d \in Vector_DistanceSquared(pkg, kind, a, b) :
                      res = FSqrt(ToF(d.kind, d.val))
               /\ (IsInt(kind) /\ SumFits(kind, "float64", SumOf(terms))) =>
                      res = FSqrt(FloatOf(SumOf(terms)))
               /\ Vector_Distance(pkg, kind, b, a) = Vector_Distance(pkg, kind, a, b)
               /\ Vector_Length(pkg, kind, Vector_Sub(pkg, kind, b, a))
                      = Vector_Distance(pkg, kind, a, b)
               /\ (IF IsInt(kind) THEN SumFits(kind, "float64", SumOf(terms))
                   ELSE Finite(kind, a) /\ Finite(kind, b)) =>
                      /\ ~IsNaN(res)
                      /\ a = b => res = 0

\* from (3, 0, ..) to the origin, and from (3, 3, ..) to (0, 3, ..), is 3
C16_Witness ==
    /\ op = "Distance" /\ kind = "float64"
    /\ \/ a = Mixed(pkg, Fl(3, 1), 0) /\ b = Mixed(pkg, 0, 0)
       \/ a = Mixed(pkg, 0, Fl(3, 1)) /\ b = Mixed(pkg, Fl(3, 1), Fl(3, 1))
    /\ res = Fl(3, 1)

\* the product of two floats is finite and needs no rounding
ExactProduct(x, y) ==
    IsFinite(x) /\ IsFinite(y) /\ FMA(x, y, FNeg(FMul(x, y))) = 0

\* the pairs of components a cross product multiplies
CrossTerms(v, o) ==
    {<<v.Y, o.Z>>, <<v.Z, o.Y>>, <<v.Z, o.X>>, <<v.X, o.Z>>, <<v.X, o.Y>>, <<v.Y, o.X>>}

\* the products of a float cross product are finite, and on a build that
\* fuses they need no rounding
Steady(f, k, terms) ==
    IsInt(k) \/ \A t \in terms :
                    /\ IsFinite(FMul(t[1], t[2]))
                    /\ f # "none" => ExactProduct(t[1], t[2])

\* C17 as stated: for all a and b of one kind, a.Cross(b) equals
\* b.Cross(a).Flip() in every component, and a.Cross(a) is the zero vector.
C17_AnticommutesAlways ==
    op = "Cross" =>
        /\ V3_Eq(kind, res, V3_Flip(kind, V3_Cross(arg, kind, b, a)))
        /\ a = b => V3_Eq(kind, res, V3_Zero)

\* C17: a.Cross(b) equals b.Cross(a).Flip() in every component, and
\* a.Cross(a) is the zero vector, for every a and b of an integer kind
\* (wrap-around included), and for a float kind when every product of the
\* cross product is finite and either the build rounds each operation or
\* the products need no rounding.  (With an infinite or NaN component, or
\* products that overflow, a component of the result is NaN; on a build that
\* fuses a product into the subtraction, a.Cross(a) is the rounding error of
\* the other product.)
C17_Anticommutes ==
    (op = "Cross" /\ Steady(arg, kind, CrossTerms(a, b))) =>
        /\ V3_Eq(kind, res, V3_Flip(kind, V3_Cross(arg, kind, b, a)))
        /\ a = b => V3_Eq(kind, res, V3_Zero)

\* (3, 0, 0) x (0, 3, 3) is (0, -9, 9), and the other way round (0, 9, -9)
C17_Witness ==
    /\ op = "Cross" /\ kind = "int8"
    /\ a = [X |-> 3, Y |-> 0, Z |-> 0] /\ b = [X |-> 0, Y |-> 3, Z |-> 3]
    /\ res = [X |-> 0, Y |-> 0 - 9, Z |-> 9]
    /\ V3_Cross(arg, kind, b, a) = [X |-> 0, Y |-> 9, Z |-> 0 - 9]

\* C18 as stated: Vector2 Perpendicular returns exactly (y, -x) for the
\* receiver (x, y), its Dot with the receiver is 0, its LengthSquared equals
\* the receiver's, and applying it twice yields Flip of the receiver.
C18_PerpendicularAlways ==
    (op = "Perpendicular" /\ pkg = 2) =>
        /\ res = [X |-> a.Y, Y |-> TNeg(kind, a.X)]
        /\ TEq(kind, SumProd2On(arg, kind, res.X, a.X, res.Y, a.Y), ZeroT)
        /\ TEq(kind, SumProd2On(arg, kind, res.X, res.X, res.Y, res.Y),
                     SumProd2On(arg, kind, a.X, a.X, a.Y, a.Y))
        /\ V2_Eq(kind, V2_Perpendicular(kind, res), V2_Flip(kind, a))

\* C18: Vector2 Perpendicular returns exactly (y, -x) for the receiver
\* (x, y), the negation taken in T (so the least integer stays itself).
\* For an integer kind its Dot with the receiver is 0, its LengthSquared
\* equals the receiver's and applying it twice yields Flip of the receiver,
\* wrap-around included.  For a float kind applying it twice yields Flip of
\* the receiver when no component is NaN, and the Dot is 0 and the
\* LengthSquared equal when the products x*y, x*x and y*y are finite and
\* either the build rounds each operation or the products need no rounding.
C18_Perpendicular ==
    (op = "Perpendicular" /\ pkg = 2) =>
        /\ res = [X |-> a.Y, Y |-> TNeg(kind, a.X)]
        /\ Steady(arg, kind, {<<a.X, a.Y>>, <<a.X, a.X>>, <<a.Y, a.Y>>}) =>
              /\ TEq(kind, SumProd2On(arg, kind, res.X, a.X, res.Y, a.Y), ZeroT)
              /\ TEq(kind, SumProd2On(arg, kind, res.X, res.X, res.Y, res.Y),
                           SumProd2On(arg, kind, a.X, a.X, a.Y, a.Y))
        /\ (IsInt(kind) \/ (~IsNaN(a.X) /\ ~IsNaN(a.Y))) =>
              V2_Eq(kind, V2_Perpendicular(kind, res), V2_Flip(kind, a))

\* (1, -2.5).Perpendicular() is (-2.5, -1), and once more (-1, 2.5)
C18_Witness ==
    /\ op = "Perpendicular" /\ pkg = 2 /\ kind = "float64"
    /\ a = [X |-> Fl(1, 1), Y |-> Fl(0 - 5, 2)]
    /\ res = [X |-> Fl(0 - 5, 2), Y |-> Fl(0 - 1, 1)]
    /\ V2_Perpendicular(kind, res) = [X |-> Fl(0 - 1, 1), Y |-> Fl(5, 2)]
    /\ SumProd2On(arg, kind, res.X, a.X, res.Y, a.Y) = 0

\* the values v.Dot(o) of vector3 takes on a build that fuses as f: the one
\* of rounding each operation, or any of those with a product fused
Dots(f, k, v, o) ==
    IF IsInt(k) \/ f # "none" THEN V3_Dot(k, v, o)
    ELSE {FAdd(SumProd2On(f, k, v.X, o.X, v.Y, o.Y), FMul(v.Z, o.Z))}

\* some component differs from zero, as Go compares
NonZero(k, v) == ~V3_Eq(k, v, V3_Zero)

\* C19 as stated: for every Vector3 v with a nonzero x, y or z,
\* v.Perpendicular() is a nonzero vector whose Dot with v is 0, on every
\* branch of the helper choice.
C19_PerpendicularAlways ==
    (op = "Perpendicular" /\ pkg = 3 /\ NonZero(kind, a)) =>
        /\ NonZero(kind, res)
        /\ \A d \in Dots(arg, kind, res, a) : FEq(d, 0)

\* C19: for every Vector3 v with a nonzero x, y or z, v.Perpendicular() is
\* a nonzero vector, on every branch of the helper choice.  Its Dot with v
\* is 0 for every v of an integer kind (wrap-around included), and for a
\* float kind when the components of v are finite, the product y*z is
\* finite and either the build rounds each operation or y*z needs no
\* rounding.  (With an infinite or NaN component the result has a NaN
\* component and the Dot is NaN; on a build that fuses, the Dot is the
\* rounding error of y*z.)
C19_Perpendicular ==
    (op = "Perpendicular" /\ pkg = 3 /\ NonZero(kind, a)) =>
        /\ NonZero(kind, res)
        /\ (Finite(kind, a) /\ Steady(arg, kind, {<<a.Y, a.Z>>})) =>
              \A d \in Dots(arg, kind, res, a) : FEq(d, 0)

\* (3, 0, 0), along the X axis, gives (0, 0, 3)
C19_Witness ==
    /\ op = "Perpendicular" /\ pkg = 3 /\ kind = "int8"
    /\ a = [X |-> 3, Y |-> 0, Z |-> 0]
    /\ res = [X |-> 0, Y |-> 0, Z |-> 3]
    /\ Dots(arg, kind, res, a) = {0}

\* the input has a nonzero Y or Z component, as Go compares
OffX(k, v) == ~TEq(k, v.Y, ZeroT) \/ ~TEq(k, v.Z, ZeroT)

\* C20 as stated: Vector3 Perpendicular returns the cross product of the
\* input with the right axis (1,0,0), except when the input has a nonzero Y
\* or Z component, in which case with the up axis (0,1,0).
C20_RightUnlessOffXAlways ==
    (op = "Perpendicular" /\ pkg = 3) =>
        res = V3_Cross(arg, kind, a, IF OffX(kind, a) THEN V3_Up(kind) ELSE V3_Right(kind))

\* C20: Vector3 Perpendicular returns the cross product of the input with
\* the up axis (0,1,0), except when the input has a nonzero Y or Z
\* component, in which case with the right axis (1,0,0).  For an integer
\* kind, and for a float kind with finite components, that is (0, z, -y)
\* when y or z is nonzero and (0, 0, x) otherwise.
C20_UpUnlessOffX ==
    (op = "Perpendicular" /\ pkg = 3) =>
        /\ res = V3_Cross(arg, kind, a, IF OffX(kind, a) THEN V3_Right(kind) ELSE V3_Up(kind))
        /\ Finite(kind, a) =>
              res = IF OffX(kind, a)
                    THEN [X |-> ZeroT, Y |-> a.Z, Z |-> TNeg(kind, a.Y)]
                    ELSE [X |-> ZeroT, Y |-> ZeroT, Z |-> a.X]

\* (0, 0, 3) is crossed with the right axis and gives (0, 3, 0)
C20_Witness ==
    /\ op = "Perpendicular" /\ pkg = 3 /\ kind = "int8"
    /\ a = [X |-> 0, Y |-> 0, Z |-> 3]
    /\ res = [X |-> 0, Y |-> 3, Z |-> 0]
    /\ res = V3_Cross(arg, kind, a, V3_Right(kind))

\* the difference under the root of the last Refract is negative: total
\* internal reflection
Reflected == op = "Refract" /\ FLt(arg.under, 0)

Lhs == Named(arg[1])

Rhs == Named(arg[2])

\* the last call compared with one of the four functions
Compared == op \in {"Less", "LessEq", "Greater", "GreaterEq"}

\* the comparison of one axis that the function `name` makes
AxisHolds(name, k, x, y) ==
    CASE name = "Less" -> Lt(k, x, y)
      [] name = "LessEq" -> Le(k, x, y)
      [] name = "Greater" -> Lt(k, y, x)
      [] name = "GreaterEq" -> Le(k, y, x)

\* the four functions are conjunctions over the axes
Conjunctive ==
    Compared =>
        res = (/\ AxisHolds(op, kind, Lhs.X, Rhs.X)
               /\ AxisHolds(op, kind, Lhs.Y, Rhs.Y))

\* LessEq is antisymmetric and transitive
OrdersPartially ==
    (op = "LessEq" /\ res) =>
        /\ V2_LessEq(kind, Rhs, Lhs) => V2_Eq(kind, Lhs, Rhs)
        /\ \A c \in Vecs(pkg, Axes(kind)) :
              V2_LessEq(kind, Rhs, c) => V2_LessEq(kind, Lhs, c)

\* Less(a, b) implies Greater(b, a) and excludes Less(b, a)
Asymmetric ==
    (op = "Less" /\ res) =>
        V2_Greater(kind, Rhs, Lhs) /\ ~V2_Less(kind, Rhs, Lhs)

\* C22 as stated: Less, LessEq, Greater and GreaterEq are conjunctions over
\* the axes; LessEq is reflexive, antisymmetric and transitive; Less(a, b)
\* implies Greater(b, a) and not Less(b, a).
C22_PartialOrderAlways ==
    /\ Conjunctive
    /\ (op = "LessEq" /\ arg[1] = arg[2]) => res
    /\ OrdersPartially
    /\ Asymmetric

\* C22: Less, LessEq, Greater and GreaterEq are conjunctions over the axes;
\* LessEq is antisymmetric and transitive, and reflexive on the vectors
\* without a NaN component (every vector of an integer kind); Less(a, b)
\* implies Greater(b, a) and not Less(b, a).
C22_PartialOrder ==
    /\ Conjunctive
    /\ (op = "LessEq" /\ arg[1] = arg[2]) =>
          (res <=> (IsInt(kind) \/ (~IsNaN(Lhs.X) /\ ~IsNaN(Lhs.Y))))
    /\ OrdersPartially
    /\ Asymmetric

\* the order is not total: (0, 3) and (3, 0) are not LessEq, nor GreaterEq
C22_Witness ==
    /\ op = "LessEq" /\ kind = "int8" /\ arg = <<"a", "b">>
    /\ a = [X |-> 0, Y |-> 3] /\ b = [X |-> 3, Y |-> 0]
    /\ ~res /\ ~V2_GreaterEq(kind, a, b)

\* the call of RandInUnitSphere is in its loop, and has returned
InLoop == op = "RandInUnitSphere.for"

Returned == op = "RandInUnitSphere"

C23_StuckWitness ==
    /\ InLoop /\ arg = {0} /\ ~CanYield(arg)
    /\ res = [X |-> Fl(0 - 1, 1), Y |-> Fl(0 - 1, 1), Z |-> Fl(0 - 1, 1)]

\* the difference max - min is one the kind holds: it does not wrap around
\* for an integer kind, and both bounds are finite for a float kind
Spans(k, min, max) ==
    IF IsInt(k) THEN max - min <= MaxInt(k)
    ELSE IsFinite(min) /\ IsFinite(max)

SmallerOf(k, m, x, y) ==
    (TEq(k, m, x) \/ TEq(k, m, y)) /\ Le(k, m, x) /\ Le(k, m, y)

\* m is the one of x and y that is not below the other
LargerOf(k, m, x, y) ==
    (TEq(k, m, x) \/ TEq(k, m, y)) /\ Le(k, x, m) /\ Le(k, y, m)

\* Min(a, b) returned res: it is componentwise the smaller, equal to
\* Min(b, a), at most a, and with Max(a, b) it sums to a + b
MinIsComponentwise ==
    /\ \A i \in DOMAIN Comps(pkg, res) :
          /\ SmallerOf(kind, Comps(pkg, res)[i], Comps(pkg, a)[i], Comps(pkg, b)[i])
          /\ Le(kind, Comps(pkg, res)[i], Comps(pkg, a)[i])
          /\ \A M \in Vector_Max(pkg, kind, a, b) :
                TEq(kind, TAdd(kind, Comps(pkg, res)[i], Comps(pkg, M)[i]),
                          TAdd(kind, Comps(pkg, a)[i], Comps(pkg, b)[i]))
    /\ \E o \in Vector_Min(pkg, kind, b, a) : VecEq(pkg, kind, res, o)

\* Max(a, b) returned res: it is componentwise the larger, equal to
\* Max(b, a), at least a, and with Min(a, b) it sums to a + b
MaxIsComponentwise ==
    /\ \A i \in DOMAIN Comps(pkg, res) :
          /\ LargerOf(kind, Comps(pkg, res)[i], Comps(pkg, a)[i], Comps(pkg, b)[i])
          /\ Le(kind, Comps(pkg, a)[i], Comps(pkg, res)[i])
          /\ \A m \in Vector_Min(pkg, kind, a, b) :
                TEq(kind, TAdd(kind, Comps(pkg, m)[i], Comps(pkg, res)[i]),
                          TAdd(kind, Comps(pkg, a)[i], Comps(pkg, b)[i]))
    /\ \E o \in Vector_Max(pkg, kind, b, a) : VecEq(pkg, kind, res, o)

\* every component of v is one float64 holds exactly and is not NaN
Held(k, v) ==
    \A i \in DOMAIN Comps(pkg, v) :
        /\ ~IsNaN(ToF(k, Comps(pkg, v)[i]))
        /\ Cast(k, ToF(k, Comps(pkg, v)[i])) = {Comps(pkg, v)[i]}

\* no component of a + b is the sum of opposite infinities
Summable(k, v, o) ==
    \A i \in DOMAIN Comps(pkg, v) :
        IsInt(k) \/ ~IsNaN(FAdd(Comps(pkg, v)[i], Comps(pkg, o)[i]))

\* C25 as stated: Min(a,b) and Max(a,b) are componentwise, each component
\* of Min the smaller and each component of Max the larger of the two
\* inputs, so Min(a,b) == Min(b,a), Min(a,b) <= a, a <= Max(a,b) and
\* Min(a,b) + Max(a,b) == a + b per component, for all vectors.
C25_ComponentwiseAlways ==
    /\ op = "Min" => MinIsComponentwise
    /\ op = "Max" => MaxIsComponentwise

\* C25: Min(a,b) and Max(a,b) are componentwise, each component of Min the
\* smaller and each component of Max the larger of the two inputs, with
\* Min(a,b) == Min(b,a), Min(a,b) <= a, a <= Max(a,b) and
\* Min(a,b) + Max(a,b) == a + b per component, when every component of a
\* and b is a value float64 holds exactly and is not NaN and no component
\* pairs +Inf with -Inf; e.g. Min((1,2,3,4),(4,3,2,1)) is (1,2,2,1) and
\* Max is (4,3,3,4).
C25_Componentwise ==
    /\ (op = "Min" /\ Held(kind, a) /\ Held(kind, b) /\ Summable(kind, a, b))
          => MinIsComponentwise
    /\ (op = "Max" /\ Held(kind, a) /\ Held(kind, b) /\ Summable(kind, a, b))
          => MaxIsComponentwise
    /\ (op = "Min" /\ pkg = 4 /\ a = Counted(4, kind) /\ b = Reversed(4, kind))
          => res = [x |-> OneT(kind), y |-> 2 * OneT(kind),
                    z |-> 2 * OneT(kind), w |-> OneT(kind)]
    /\ (op = "Max" /\ pkg = 4 /\ a = Counted(4, kind) /\ b = Reversed(4, kind))
          => res = [x |-> 4 * OneT(kind), y |-> 3 * OneT(kind),
                    z |-> 3 * OneT(kind), w |-> 4 * OneT(kind)]

\* Min((1,2,3,4), (4,3,2,1)) returned (1,2,2,1)
C25_Witness ==
    /\ op = "Min" /\ pkg = 4 /\ kind = "int8"
    /\ a = [x |-> 1, y |-> 2, z |-> 3, w |-> 4]
    /\ b = [x |-> 4, y |-> 3, z |-> 2, w |-> 1]
    /\ res = [x |-> 1, y |-> 2, z |-> 2, w |-> 1]

\* the call named `name` returned its receiver with component n replaced
\* by c, and left the receiver as it was
OnlyAxis(name, n, c) ==
    op' = name =>
        /\ \A i \in DOMAIN Comps(pkg, a) :
              Comps(pkg, res')[i] = IF i = n THEN c ELSE Comps(pkg, a)[i]
        /\ DOMAIN Comps(pkg, res') = DOMAIN Comps(pkg, a)
        /\ a' = a

\* C26: SetX/SetY/SetZ/SetW of Vector4 return a copy whose named component
\* equals the argument, and Dx/Dy of Vector2 return a copy whose named
\* component is the old value plus the delta (Go's + of the scalar kind);
\* every other component of the result equals the receiver's and the
\* receiver itself is unchanged.
C26_OnlyNamedAxis ==
    [][/\ OnlyAxis("SetX", 1, arg') /\ OnlyAxis("SetY", 2, arg')
       /\ OnlyAxis("SetZ", 3, arg') /\ OnlyAxis("SetW", 4, arg')
       /\ OnlyAxis("Dx", 1, IF IsInt(kind) THEN Wrap(kind, a.X + arg')
                            ELSE FAdd(a.X, arg'))
       /\ OnlyAxis("Dy", 2, IF IsInt(kind) THEN Wrap(kind, a.Y + arg')
                            ELSE FAdd(a.Y, arg'))]_vars

\* Dy(3) on (3, -100) returned (3, -97)
C26_Witness ==
    /\ op = "Dy" /\ kind = "int8" /\ arg = 3
    /\ a = [X |-> 3, Y |-> 0 - 100]
    /\ res = [X |-> 3, Y |-> 0 - 97]

\* a call of Average or AverageVector3 returned, for a list of n >= 1
Averaged == op \in {"Average", "AverageVector3"} /\ Len(arg) >= 1

\* the list holds copies of its first vector
AllCopies(vectors) == \A i \in DOMAIN vectors : vectors[i] = vectors[1]

\* the sum of n copies of x computed in T is c: it is n times x, neither
\* wrapped nor rounded, finite, and a value float64 holds exactly
SumsTo(k, c, n, x) ==
    /\ IsFinite(ToF(k, x)) /\ IsFinite(ToF(k, c))
    /\ c = n * x
    /\ Cast(k, ToF(k, c)) = {c}

\* every component of the result is the component of the sum computed in
\* T, converted to float64, divided by n (AverageVector3: multiplied by
\* 1.0 / n) and cast back
QuotientOfSum ==
    \A i \in DOMAIN Comps(pkg, res) :
        LET c == Comps(pkg, Center(pkg, kind, arg))[i]
            n == Fl(Len(arg), 1)
        IN  IF op = "Average"
            THEN Comps(pkg, res)[i] \in Cast(kind, FDiv(ToF(kind, c), n))
            ELSE Comps(pkg, res)[i] = FMul(c, FDiv(Fl(1, 1), n))

\* C27 as stated: Average(vectors) returns the componentwise sum of the
\* list divided by n, cast back to the scalar kind, and the average of n
\* copies of v is v for every n >= 1 and every scalar kind.
C27_CopiesAverageAlways ==
    Averaged =>
        /\ QuotientOfSum
        /\ AllCopies(arg) => VecEq(pkg, kind, res, arg[1])

\* C27: Average(vectors) returns, for every list of n >= 1 vectors, the
\* componentwise sum computed in the scalar kind, converted to float64,
\* divided by n and cast back; the average of n copies of v is v when every
\* component's sum is exactly n times the component: it neither wraps nor
\* rounds, is finite, and is a value float64 holds, and for AverageVector3,
\* which multiplies by 1.0 / n, when n is a power of two.
C27_CopiesAverage ==
    Averaged =>
        /\ QuotientOfSum
        /\ (/\ AllCopies(arg)
            /\ op = "AverageVector3" => OddPart(Len(arg)) = 1
            /\ \A i \in DOMAIN Comps(pkg, arg[1]) :
                  SumsTo(kind, Comps(pkg, Center(pkg, kind, arg))[i],
                         Len(arg), Comps(pkg, arg[1])[i]))
              => VecEq(pkg, kind, res, arg[1])

\* the average of three copies of (3, 3, 3, 3) is (3, 3, 3, 3)
C27_Witness ==
    /\ op = "Average" /\ pkg = 4 /\ kind = "int8"
    /\ arg = <<Mixed(4, 3, 3), Mixed(4, 3, 3), Mixed(4, 3, 3)>>
    /\ res = Mixed(4, 3, 3)

\* C28: UnmarshalJSON never panics: for every input, the literal null
\* included, the call returns nil or an error, and on null the target's
\* components are left unchanged.
C28_NeverPanics ==
    [][op' = "UnmarshalJSON" =>
          /\ err' \in {"nil"} \cup JSONErrors
          /\ arg'.t = "null" => b' = b]_<<op, err, b>>

\* the component keys of package p in the order of the components
KeySeq(p) == SubSeq(<<"x", "y", "z", "w">>, 1, p)

\* the float64 the decoder leaves in the field of aux for key: the number
\* under the key, or the 0 aux starts with when the key is absent or null
Decoded(d, key) ==
    IF key \in DOMAIN d.f /\ d.f[key].t = "number" THEN ParseFloat(d.f[key].n)
    ELSE 0

\* C29: after a successful UnmarshalJSON every component of the target is
\* the decoded value of its field narrowed to the scalar kind, and a
\* component whose field is absent from the object (or null) is 0 whatever
\* it held before the call: no component retains a pre-call value.
C29_AllComponentsDecoded ==
    (op = "UnmarshalJSON" /\ err = "nil") =>
        \A i \in 1..pkg :
            Comps(pkg, b)[i] \in Cast(kind, Decoded(arg, KeySeq(pkg)[i]))

\* an object with only "x": 1.5 decoded into a vector that held no zero
\* leaves (1.5, 0, 0, 0)
C29_Witness ==
    /\ op = "UnmarshalJSON" /\ err = "nil" /\ pkg = 4 /\ kind = "float64"
    /\ arg.t = "object" /\ DOMAIN arg.f = {"x"}
    /\ arg.f["x"] = JNumber(FormatFloat(Fl(3, 2)))
    /\ b = Mixed(4, Fl(3, 2), 0)

\* vector4's Lerp returned res on an integer kind
LerpOfFour == op = "Lerp" /\ pkg = 4 /\ IsInt(kind)

\* res is, in every component, what the direct formula of vector2 and of
\* vector3 gives on the same components
AsDirectFormula ==
    /\ \A r \in V3_Lerp(kind, [X |-> a.x, Y |-> a.y, Z |-> a.z],
                        [X |-> b.x, Y |-> b.y, Z |-> b.z], arg) :
           res.x = r.X /\ res.y = r.Y /\ res.z = r.Z
    /\ \A r \in V2_Lerp(kind, [X |-> a.z, Y |-> a.w], [X |-> b.z, Y |-> b.w], arg) :
           res.z = r.X /\ res.w = r.Y

\* from x to y by t the step (y - x) * t is an integer or is truncated as
\* the sum with x is, and x, y - x and the sum are values float64 holds
\* exactly (integers of magnitude at most 2^MantBits, odd halves of
\* magnitude below 2^(MantBits - 1))
SameTruncation(k, x, y, t) ==
    LET d  == TSub(k, y, x)
        t2 == (2 * t) \div Q
    IN  /\ Abs(x) <= 2^MantBits /\ Abs(d) <= 2^MantBits
        /\ \/ Abs(d * t2 + 2 * x) <= 2^MantBits
           \/ (d * t2) % 2 = 0 /\ Abs(d * t2 + 2 * x) <= 2 * 2^MantBits
        /\ \/ (d * t2) % 2 = 0
           \/ (d > 0 /\ d * t2 + 2 * x > 0)
           \/ (d < 0 /\ d * t2 + 2 * x < 0)

===========================================================================
